---- MODULE Spec2Model ----
(***************************************************************************)
(* V2RayConverter (src/v2ray_converter.py) with the pydantic schemas of    *)
(* src/validators_Version2.py, RateLimiter (src/utils_Version2.py), and    *)
(* the process of src/main_Version2.py that runs the bot, and the          *)
(* conversation handlers of V2RayTelegramBot (src/telegram_bot.py).        *)
(*                                                                         *)
(* Text is modelled as a sequence of Unicode code points (integers), so    *)
(* that str.lower, urllib.parse.quote, urlencode, base64 and uuid.UUID are *)
(* computed character by character, the way the library computes them.     *)
(***************************************************************************)
EXTENDS Integers, Sequences, FiniteSets, TLC

VARIABLES
    pc,           \* position inside V2RayConverter.convert
    json_config,  \* argument json_config of the running call
    name,         \* argument name of the running call
    config,       \* local config (result of json.loads)
    protocol,     \* local protocol (lower-cased)
    handler,      \* the convert_* method the call invoked, "" when none was
    schema,       \* the pydantic schema the call instantiated, "" when none was
    result,       \* what the call returned or raised
    observed,     \* what the caller got from its earlier calls of Probes, by position
    user_requests,  \* RateLimiter.user_requests: user id -> list of timestamps
    clock,          \* what time.time() returns now
    recorded,       \* every timestamp add_request has recorded for a user, none removed
    answer,         \* what the last RateLimiter call returned, for the caller to read
    app_pc,         \* where the process of main_Version2.py is
    token,          \* TELEGRAM_BOT_TOKEN of the environment: "set", "unset", "" before it is read
    running,        \* BotApplication.running
    bot,            \* the V2RayTelegramBot: "none", "polling", "stopped"
    raised,         \* the exception that is propagating, "" when none is
    exit_code,      \* the exit status of the process (or of the SystemExit in flight), -1 when none
    signalled,      \* the signal the process received, and whether running was true then
    conversations,  \* ConversationHandler: the state of each (chat, user) conversation
    user_configs,   \* V2RayTelegramBot.user_configs: user id -> staged JSON text
    accepted,       \* the JSON text receive_json accepted in each running conversation
    replies         \* the last reply the bot sent in each conversation

converter_vars == <<pc, json_config, name, config, protocol, handler, schema, result, observed>>
limiter_vars == <<user_requests, clock, recorded, answer>>
app_vars == <<app_pc, token, running, bot, raised, exit_code, signalled>>
bot_vars == <<conversations, user_configs, accepted, replies>>
vars == <<converter_vars, limiter_vars, app_vars, bot_vars>>

(***************************************************************************)
(* Bounds of the model.                                                    *)
(***************************************************************************)
\* display names are all strings over NameAlphabet of length 0..MaxNameLen
MaxNameLen == 2
\* the longest password and authString a call is made with
MaxPasswordLen == 5
\* the number of requests add_request records for the user under test
MaxRecorded == 31
\* the number of requests add_request records for any other user
MaxOtherRecorded == 1
\* how many requests of one user cleanup_old_users is checked with
MaxCleanupRecorded == 2

(***************************************************************************)
(* Generic sequence helpers.                                               *)
(***************************************************************************)
RECURSIVE Flatten(_)
Flatten(ss) == IF ss = <<>> THEN <<>> ELSE Head(ss) \o Flatten(Tail(ss))

RECURSIVE Join(_, _)
Join(sep, ss) ==
    IF ss = <<>> THEN <<>>
    ELSE IF Len(ss) = 1 THEN Head(ss)
    ELSE Head(ss) \o sep \o Join(sep, Tail(ss))

StartsWith(s, p) == Len(s) >= Len(p) /\ SubSeq(s, 1, Len(p)) = p

Contains(s, c) == \E i \in 1..Len(s) : s[i] = c

\* index of the last occurrence of c in s, 0 when there is none
LastIndexOf(s, c) ==
    IF Contains(s, c)
    THEN CHOOSE i \in 1..Len(s) : s[i] = c /\ \A j \in (i+1)..Len(s) : s[j] # c
    ELSE 0

\* index of the first occurrence of c in s, 0 when there is none
FirstIndexOf(s, c) ==
    IF Contains(s, c)
    THEN CHOOSE i \in 1..Len(s) : s[i] = c /\ \A j \in 1..(i-1) : s[j] # c
    ELSE 0

\* all sequences over S of length 0..n
RECURSIVE SeqsUpTo(_, _)
SeqsUpTo(S, n) ==
    IF n = 0 THEN {<<>>}
    ELSE LET shorter == SeqsUpTo(S, n - 1)
         IN  shorter \cup {Append(s, c) : s \in shorter, c \in S}

(***************************************************************************)
(* Python str methods.                                                     *)
(***************************************************************************)
\* str.lower, on the ASCII range the model's protocol names are drawn from
LowerChar(c) == IF c >= 65 /\ c <= 90 THEN c + 32 ELSE c
\* faulty variant: the name is looked up as written
Lower_forgotten(s) == s
Lower(s) == [i \in 1..Len(s) |-> LowerChar(s[i])]

\* str.replace(old, "") : remove every non-overlapping occurrence, left to right
RECURSIVE Remove(_, _)
Remove(s, old) ==
    IF s = <<>> THEN <<>>
    ELSE IF StartsWith(s, old) THEN Remove(SubSeq(s, Len(old) + 1, Len(s)), old)
    ELSE <<Head(s)>> \o Remove(Tail(s), old)

\* str.strip(chars) : drop leading and trailing characters that are in chars
RECURSIVE LStrip(_, _)
LStrip(s, chars) ==
    IF s # <<>> /\ Head(s) \in chars THEN LStrip(Tail(s), chars) ELSE s
RECURSIVE RStrip(_, _)
RStrip(s, chars) ==
    IF s # <<>> /\ s[Len(s)] \in chars THEN RStrip(SubSeq(s, 1, Len(s) - 1), chars) ELSE s
Strip(s, chars) == RStrip(LStrip(s, chars), chars)

\* str(n) for an integer n (what an f-string does with an int)
RECURSIVE DigitsOf(_)
DigitsOf(n) == IF n < 10 THEN <<48 + n>> ELSE Append(DigitsOf(n \div 10), 48 + (n % 10))
IntToStr(n) == IF n < 0 THEN <<45>> \o DigitsOf(0 - n) ELSE DigitsOf(n)

IsDigit(c) == c >= 48 /\ c <= 57
IsHexDigit(c) == IsDigit(c) \/ (c >= 97 /\ c <= 102) \/ (c >= 65 /\ c <= 70)

(***************************************************************************)
(* str.encode() : UTF-8.                                                   *)
(***************************************************************************)
Utf8Char(c) ==
    IF c < 128 THEN <<c>>
    ELSE IF c < 2048 THEN <<192 + (c \div 64), 128 + (c % 64)>>
    ELSE IF c < 65536 THEN <<224 + (c \div 4096), 128 + ((c \div 64) % 64), 128 + (c % 64)>>
    ELSE <<240 + (c \div 262144), 128 + ((c \div 4096) % 64),
           128 + ((c \div 64) % 64), 128 + (c % 64)>>
Utf8(s) == Flatten([i \in 1..Len(s) |-> Utf8Char(s[i])])

(***************************************************************************)
(* urllib.parse.quote / quote_plus / urlencode.                            *)
(***************************************************************************)
\* urllib.parse._ALWAYS_SAFE: letters, digits and "_.-~"
AlwaysSafe(c) ==
    \/ c >= 65 /\ c <= 90
    \/ c >= 97 /\ c <= 122
    \/ IsDigit(c)
    \/ c \in {95, 46, 45, 126}

HexDigitUpper(d) == IF d < 10 THEN 48 + d ELSE 55 + d
PercentByte(b) == <<37, HexDigitUpper(b \div 16), HexDigitUpper(b % 16)>>

\* quote(s, safe): a byte of the UTF-8 form stays when it is always-safe or in
\* safe, and becomes %XX otherwise
QuoteByte(b, safe) == IF AlwaysSafe(b) \/ b \in safe THEN <<b>> ELSE PercentByte(b)
QuoteBytes(bytes, safe) == Flatten([i \in 1..Len(bytes) |-> QuoteByte(bytes[i], safe)])
QuoteSafe(s, safe) == QuoteBytes(Utf8(s), safe)

\* quote(s) with its default safe="/"
Quote(s) == QuoteSafe(s, {47})

\* quote_plus(s) with its default safe="": a space becomes "+"
SpacesToPlus(q) == [i \in 1..Len(q) |-> IF q[i] = 32 THEN 43 ELSE q[i]]
QuotePlus(s) == SpacesToPlus(QuoteSafe(s, {32}))

\* urlencode(params) for a dict of str values: k=v pairs joined by "&"
UrlEncode(params) ==
    Join(<<38>>, [i \in 1..Len(params) |->
                    QuotePlus(params[i][1]) \o <<61>> \o QuotePlus(params[i][2])])

\* urllib.parse.unquote on a string produced by quote: %XX back to the byte
HexVal(c) == IF IsDigit(c) THEN c - 48 ELSE IF c >= 97 THEN c - 87 ELSE c - 55
RECURSIVE UnquoteBytes(_)
UnquoteBytes(s) ==
    IF s = <<>> THEN <<>>
    ELSE IF Head(s) = 37 /\ Len(s) >= 3 /\ IsHexDigit(s[2]) /\ IsHexDigit(s[3])
         THEN <<16 * HexVal(s[2]) + HexVal(s[3])>> \o UnquoteBytes(SubSeq(s, 4, Len(s)))
    ELSE <<Head(s)>> \o UnquoteBytes(Tail(s))

(***************************************************************************)
(* base64.b64encode.                                                       *)
(***************************************************************************)
B64Char(v) ==
    IF v < 26 THEN 65 + v
    ELSE IF v < 52 THEN 97 + (v - 26)
    ELSE IF v < 62 THEN 48 + (v - 52)
    ELSE IF v = 62 THEN 43 ELSE 47

RECURSIVE B64Encode(_)
B64Encode(b) ==
    IF Len(b) = 0 THEN <<>>
    ELSE IF Len(b) = 1 THEN
        <<B64Char(b[1] \div 4), B64Char((b[1] % 4) * 16), 61, 61>>
    ELSE IF Len(b) = 2 THEN
        <<B64Char(b[1] \div 4), B64Char((b[1] % 4) * 16 + b[2] \div 16),
          B64Char((b[2] % 16) * 4), 61>>
    ELSE
        <<B64Char(b[1] \div 4), B64Char((b[1] % 4) * 16 + b[2] \div 16),
          B64Char((b[2] % 16) * 4 + b[3] \div 64), B64Char(b[3] % 64)>>
        \o B64Encode(SubSeq(b, 4, Len(b)))

(***************************************************************************)
(* Values.  A JSON scalar or a Python attribute value is a record          *)
(* [t, s, n]: t is the type tag, s the text of a str, n the number of an   *)
(* int.  "other" stands for any JSON array, object, float or boolean.      *)
(***************************************************************************)
StrV(s) == [t |-> "str", s |-> s, n |-> 0]
IntV(n) == [t |-> "int", s |-> <<>>, n |-> n]
None == [t |-> "none", s |-> <<>>, n |-> 0]
Other == [t |-> "other", s |-> <<>>, n |-> 0]

\* Python truthiness of a value (None, "" and 0 are falsy)
Truthy(v) == (v.t = "str" /\ v.s # <<>>) \/ (v.t = "int" /\ v.n # 0) \/ v.t = "other"

\* the text of `v or d` for an Optional[str] attribute v and a str literal d
OrElse(v, d) == IF Truthy(v) THEN v.s ELSE d

(***************************************************************************)
(* uuid.UUID(hex) as called by validate_uuid: which strings it accepts.    *)
(***************************************************************************)
\* int(s, 16) succeeds: optional surrounding whitespace, optional sign,
\* optional 0x prefix, hex digits with single underscores between them
DropSign(s) == IF s # <<>> /\ Head(s) \in {43, 45} THEN Tail(s) ELSE s
DropHexPrefix(s) ==
    IF Len(s) >= 2 /\ s[1] = 48 /\ s[2] \in {120, 88}
    THEN IF Len(s) >= 3 /\ s[3] = 95 THEN SubSeq(s, 4, Len(s)) ELSE SubSeq(s, 3, Len(s))
    ELSE s
HexDigitsOk(d) ==
    /\ d # <<>>
    /\ \A i \in 1..Len(d) : IsHexDigit(d[i]) \/ d[i] = 95
    /\ IsHexDigit(d[1]) /\ IsHexDigit(d[Len(d)])
    /\ \A i \in 1..(Len(d) - 1) : ~(d[i] = 95 /\ d[i+1] = 95)
IntBase16Ok(s) == HexDigitsOk(DropHexPrefix(DropSign(Strip(s, {32, 9, 10, 13}))))

\* uuid.UUID(v) does not raise ValueError:
\*   hex = hex.replace('urn:', '').replace('uuid:', '')
\*   hex = hex.strip('{}').replace('-', '')
\*   if len(hex) != 32: raise ValueError;  int(hex, 16)
UuidHexOk(hex) == Len(hex) = 32 /\ IntBase16Ok(hex)
UuidCtorOk(v) ==
    UuidHexOk(Remove(Strip(Remove(Remove(v, <<117, 114, 110, 58>>),   \* "urn:"
                                  <<117, 117, 105, 100, 58>>),        \* "uuid:"
                           {123, 125}),                               \* "{}"
                     <<45>>))                                         \* "-"

\* StringValidator.is_valid_uuid: ^[0-9a-f]{8}-[0-9a-f]{4}-[0-9a-f]{4}-[0-9a-f]{4}-[0-9a-f]{12}$
\* matched against the lower-cased string (re.match with $ also accepts one
\* trailing newline)
LowerHex(c) == IsDigit(c) \/ (c >= 97 /\ c <= 102)
UuidPatternOk(l) ==
    /\ Len(l) = 36 \/ (Len(l) = 37 /\ l[37] = 10)
    /\ \A i \in 1..36 : IF i \in {9, 14, 19, 24} THEN l[i] = 45 ELSE LowerHex(l[i])
is_valid_uuid(uuid_string) == UuidPatternOk(Lower(uuid_string))

(***************************************************************************)
(* The field validators of the schemas (@validator methods).               *)
(***************************************************************************)
\* VLESSConfig.validate_uuid / VMESSConfig.validate_uuid
validate_uuid(v) == UuidCtorOk(v.s)

\* validate_port of every schema
validate_port(v) == 1 <= v.n /\ v.n <= 65535

\* VMESSConfig.validate_aid
validate_aid(v) == 0 <= v.n /\ v.n <= 65535

\* faulty variant: three characters are enough
validate_password_min3(v) == ~(Len(v.s) < 3)
\* validate_password of TROJANConfig, ShadowsocksConfig, Hysteria2Config
validate_password(v) == ~(Len(v.s) < 4)

\* faulty variant: rc4 is allowed as well
valid_methods_with_rc4 ==
    << <<97, 101, 115, 45, 49, 50, 56, 45, 103, 99, 109>>,
       <<97, 101, 115, 45, 50, 53, 54, 45, 103, 99, 109>>,
       <<99, 104, 97, 99, 104, 97, 50, 48, 45, 112, 111, 108, 121, 49, 51, 48, 53>>,
       <<97, 101, 115, 45, 49, 50, 56, 45, 99, 116, 114>>,
       <<97, 101, 115, 45, 49, 57, 50, 45, 99, 116, 114>>,
       <<97, 101, 115, 45, 50, 53, 54, 45, 99, 116, 114>>,
       <<97, 101, 115, 45, 49, 50, 56, 45, 99, 102, 98>>,
       <<97, 101, 115, 45, 49, 57, 50, 45, 99, 102, 98>>,
       <<97, 101, 115, 45, 50, 53, 54, 45, 99, 102, 98>>,
       <<99, 104, 97, 99, 104, 97, 50, 48, 45, 105, 101, 116, 102, 45, 112, 111, 108, 121, 49, 51, 48, 53>>,
       <<114, 99, 52>> >>
valid_methods ==
    << <<97, 101, 115, 45, 49, 50, 56, 45, 103, 99, 109>>,   \* "aes-128-gcm"
       <<97, 101, 115, 45, 50, 53, 54, 45, 103, 99, 109>>,   \* "aes-256-gcm"
       <<99, 104, 97, 99, 104, 97, 50, 48, 45, 112, 111, 108, 121, 49, 51, 48, 53>>,  \* "chacha20-poly1305"
       <<97, 101, 115, 45, 49, 50, 56, 45, 99, 116, 114>>,   \* "aes-128-ctr"
       <<97, 101, 115, 45, 49, 57, 50, 45, 99, 116, 114>>,   \* "aes-192-ctr"
       <<97, 101, 115, 45, 50, 53, 54, 45, 99, 116, 114>>,   \* "aes-256-ctr"
       <<97, 101, 115, 45, 49, 50, 56, 45, 99, 102, 98>>,    \* "aes-128-cfb"
       <<97, 101, 115, 45, 49, 57, 50, 45, 99, 102, 98>>,    \* "aes-192-cfb"
       <<97, 101, 115, 45, 50, 53, 54, 45, 99, 102, 98>>,    \* "aes-256-cfb"
       <<99, 104, 97, 99, 104, 97, 50, 48, 45, 105, 101, 116, 102, 45, 112, 111, 108, 121, 49, 51, 48, 53>> >>  \* "chacha20-ietf-poly1305"

\* ShadowsocksConfig.validate_method
validate_method(v) == \E i \in 1..Len(valid_methods) : valid_methods[i] = v.s

\* the @validator attached to a field, by the name the schema table gives it
RunValidator(which, v) ==
    CASE which = "uuid" -> validate_uuid(v)
      [] which = "port" -> validate_port(v)
      [] which = "aid" -> validate_aid(v)
      [] which = "password" -> validate_password(v)
      [] which = "method" -> validate_method(v)
      [] OTHER -> TRUE

(***************************************************************************)
(* The pydantic schemas.  A field is [name, alias, type, optional,         *)
(* required, default, validator]; alias = name when the field declares no  *)
(* alias.  Fields are listed in declaration order.                         *)
(***************************************************************************)
Fld(n, a, ty, opt, req, dflt, val) ==
    [name |-> n, alias |-> a, type |-> ty, optional |-> opt, required |-> req,
     default |-> dflt, validator |-> val]

Required(n, a, ty, val) == Fld(n, a, ty, FALSE, TRUE, None, val)
OptionalStr(n, a, dflt) == Fld(n, a, "str", TRUE, FALSE, dflt, "")
DefaultStr(n, dflt) == Fld(n, n, "str", FALSE, FALSE, StrV(dflt), "")

VLESSConfig ==
    << Required("uuid", "id", "str", "uuid"),
       Required("address", "address", "str", ""),
       Required("port", "port", "int", "port"),
       DefaultStr("protocol", <<118, 108, 101, 115, 115>>),      \* "vless"
       DefaultStr("encryption", <<110, 111, 110, 101>>),         \* "none"
       OptionalStr("flow", "flow", None),
       OptionalStr("tls", "tls", None),
       OptionalStr("sni", "sni", None),
       OptionalStr("alpn", "alpn", None),
       OptionalStr("network", "network", StrV(<<116, 99, 112>>)),  \* "tcp"
       OptionalStr("path", "path", None),
       OptionalStr("host", "host", None),
       OptionalStr("header_type", "headerType", None) >>

VMESSConfig ==
    << Required("uuid", "id", "str", "uuid"),
       Required("address", "address", "str", ""),
       Required("port", "port", "int", "port"),
       DefaultStr("protocol", <<118, 109, 101, 115, 115>>),      \* "vmess"
       Fld("aid", "aid", "int", FALSE, FALSE, IntV(0), "aid"),
       DefaultStr("cipher", <<97, 117, 116, 111>>),              \* "auto"
       OptionalStr("tls", "tls", None),
       OptionalStr("sni", "sni", None),
       OptionalStr("network", "network", StrV(<<116, 99, 112>>)),  \* "tcp"
       OptionalStr("path", "path", None),
       OptionalStr("host", "host", None) >>

TROJANConfig ==
    << Required("password", "password", "str", "password"),
       Required("address", "address", "str", ""),
       Required("port", "port", "int", "port"),
       DefaultStr("protocol", <<116, 114, 111, 106, 97, 110>>),  \* "trojan"
       OptionalStr("tls", "tls", StrV(<<116, 108, 115>>)),       \* "tls"
       OptionalStr("sni", "sni", None),
       OptionalStr("alpn", "alpn", None),
       OptionalStr("network", "network", StrV(<<116, 99, 112>>)),  \* "tcp"
       OptionalStr("path", "path", None),
       OptionalStr("host", "host", None) >>

ShadowsocksConfig ==
    << Required("method", "method", "str", "method"),
       Required("password", "password", "str", "password"),
       Required("address", "address", "str", ""),
       Required("port", "port", "int", "port"),
       DefaultStr("protocol", <<115, 115>>) >>                   \* "ss"

Hysteria1Config ==
    << DefaultStr("protocol", <<104, 121>>),                     \* "hy"
       Required("auth_string", "authString", "str", ""),
       Required("address", "address", "str", ""),
       Required("port", "port", "int", "port"),
       OptionalStr("tls", "tls", StrV(<<116, 108, 115>>)),       \* "tls"
       OptionalStr("sni", "sni", None),
       OptionalStr("alpn", "alpn", StrV(<<104, 50>>)),           \* "h2"
       OptionalStr("protocol_string", "protocolString", None) >>

Hysteria2Config ==
    << DefaultStr("protocol", <<104, 121, 50>>),                 \* "hy2"
       Required("password", "password", "str", "password"),
       Required("address", "address", "str", ""),
       Required("port", "port", "int", "port"),
       OptionalStr("tls", "tls", StrV(<<116, 108, 115>>)),       \* "tls"
       OptionalStr("sni", "sni", None),
       OptionalStr("alpn", "alpn", StrV(<<104, 51>>)),           \* "h3"
       OptionalStr("obfs", "obfs", None),
       OptionalStr("obfs_password", "obfsPassword", None) >>

\* the attributes an instance of the schema has
FieldNames(fields) == {fields[i].name : i \in 1..Len(fields)}
\* the fields declared without a default
RequiredFields(fields) == {fields[i].name : i \in {j \in 1..Len(fields) : fields[j].required}}

(***************************************************************************)
(* pydantic's BaseModel.__init__ (validate_model).  Every field is        *)
(* looked up (by alias, then by name: allow_population_by_field_name),     *)
(* type-checked and passed to its validator; the errors of all fields are  *)
(* collected and raised together as one ValidationError.                   *)
(***************************************************************************)
IsDecimal(s) ==
    LET d == IF s # <<>> /\ Head(s) \in {43, 45} THEN Tail(s) ELSE s
    IN  d # <<>> /\ \A i \in 1..Len(d) : IsDigit(d[i])

RECURSIVE DigitsValue(_)
DigitsValue(d) ==
    IF d = <<>> THEN 0 ELSE 10 * DigitsValue(SubSeq(d, 1, Len(d) - 1)) + (d[Len(d)] - 48)
StrToInt(s) ==
    IF Head(s) = 45 THEN 0 - DigitsValue(Tail(s))
    ELSE IF Head(s) = 43 THEN DigitsValue(Tail(s))
    ELSE DigitsValue(s)

\* the message of an error pydantic raises itself
PydanticMessage(type) ==
    CASE type = "value_error.missing" -> <<102, 105, 101, 108, 100, 32, 114, 101, 113, 117, 105, 114, 101, 100>>
      [] type = "type_error.str" -> <<115, 116, 114, 32, 116, 121, 112, 101, 32, 101, 120, 112, 101, 99, 116, 101, 100>>
      [] type = "type_error.integer" -> <<118, 97, 108, 117, 101, 32, 105, 115, 32, 110, 111, 116, 32, 97, 32, 118, 97, 108, 105, 100, 32, 105, 110, 116, 101, 103, 101, 114>>
      [] type = "type_error.none.not_allowed" -> <<110, 111, 110, 101, 32, 105, 115, 32, 110, 111, 116, 32, 97, 110, 32, 97, 108, 108, 111, 119, 101, 100, 32, 118, 97, 108, 117, 101>>
      [] OTHER -> <<>>
\* the message of the ValueError a @validator raises for the value v
ValidatorMessage(which, v) ==
    CASE which = "uuid" -> <<73, 110, 118, 97, 108, 105, 100, 32, 85, 85, 73, 68, 32, 102, 111, 114, 109, 97, 116, 58, 32>> \o v.s
      [] which = "port" -> <<80, 111, 114, 116, 32, 109, 117, 115, 116, 32, 98, 101, 32, 98, 101, 116, 119, 101, 101, 110, 32, 49, 32, 97, 110, 100, 32, 54, 53, 53, 51, 53, 44, 32, 103, 111, 116, 32>> \o IntToStr(v.n)
      [] which = "aid" -> <<65, 108, 116, 101, 114, 73, 100, 32, 109, 117, 115, 116, 32, 98, 101, 32, 98, 101, 116, 119, 101, 101, 110, 32, 48, 32, 97, 110, 100, 32, 54, 53, 53, 51, 53, 44, 32, 103, 111, 116, 32>> \o IntToStr(v.n)
      [] which = "password" -> <<80, 97, 115, 115, 119, 111, 114, 100, 32, 109, 117, 115, 116, 32, 98, 101, 32, 97, 116, 32, 108, 101, 97, 115, 116, 32, 52, 32, 99, 104, 97, 114, 97, 99, 116, 101, 114, 115>>
      [] which = "method" -> <<73, 110, 118, 97, 108, 105, 100, 32, 109, 101, 116, 104, 111, 100, 46, 32, 83, 117, 112, 112, 111, 114, 116, 101, 100, 58, 32>> \o Join(<<44, 32>>, valid_methods)
      [] OTHER -> <<>>

FieldOk(f, v) ==
    [ok |-> TRUE, field |-> f.name, loc |-> f.alias, type |-> "", value |-> v, msg |-> <<>>]
FieldErr(f, loc, type) ==
    [ok |-> FALSE, field |-> f.name, loc |-> loc, type |-> type, value |-> None,
     msg |-> PydanticMessage(type)]
ValidatorErr(f, loc, typed) ==
    [ok |-> FALSE, field |-> f.name, loc |-> loc, type |-> "value_error", value |-> None,
     msg |-> ValidatorMessage(f.validator, typed)]

\* the type validator of the field (str_validator / int_validator), then its
\* @validator
Coerce(type, raw) ==
    IF type = "str"
    THEN IF raw.t = "str" THEN raw
         ELSE IF raw.t = "int" THEN StrV(IntToStr(raw.n))
         ELSE Other
    ELSE IF raw.t = "int" THEN raw
         ELSE IF raw.t = "str" /\ IsDecimal(raw.s) THEN IntV(StrToInt(raw.s))
         ELSE Other
CheckTyped(f, loc, typed) ==
    IF typed.t = "other"
    THEN FieldErr(f, loc, IF f.type = "str" THEN "type_error.str" ELSE "type_error.integer")
    ELSE IF RunValidator(f.validator, typed)
    THEN FieldOk(f, typed)
    ELSE ValidatorErr(f, loc, typed)
CheckValue(f, loc, raw) == CheckTyped(f, loc, Coerce(f.type, raw))

ValidateField(f, data) ==
    LET byAlias == f.alias \in DOMAIN data
        byName == ~byAlias /\ f.name \in DOMAIN data
        loc == IF byName THEN f.name ELSE f.alias
    IN  IF ~byAlias /\ ~byName
        THEN IF f.required THEN FieldErr(f, f.alias, "value_error.missing")
             ELSE FieldOk(f, f.default)
        ELSE LET raw == IF byAlias THEN data[f.alias] ELSE data[f.name]
             IN  IF raw.t = "none"
                 THEN IF f.optional THEN FieldOk(f, None)
                      ELSE FieldErr(f, loc, "type_error.none.not_allowed")
                 ELSE CheckValue(f, loc, raw)

\* the constructor call Model(data): [errors, values]; the constructor raises ValidationError
\* exactly when errors is not empty
IsFieldError(o) == ~o.ok
\* faulty variant: validation stops at the first field that fails
Collect_first_error(fields, outcome) ==
    [errors |-> SubSeq(SelectSeq(outcome, IsFieldError), 1,
                       IF \E i \in 1..Len(outcome) : ~outcome[i].ok THEN 1 ELSE 0),
     values |-> [n \in FieldNames(fields) |->
                    outcome[CHOOSE i \in 1..Len(fields) : fields[i].name = n].value]]
Collect(fields, outcome) ==
    [errors |-> SelectSeq(outcome, IsFieldError),
     values |-> [n \in FieldNames(fields) |->
                    outcome[CHOOSE i \in 1..Len(fields) : fields[i].name = n].value]]
ValidateModel(fields, data) ==
    Collect(fields, [i \in 1..Len(fields) |-> ValidateField(fields[i], data)])

(***************************************************************************)
(* json.dumps(obj, separators=(",", ":")) for a dict of str and int        *)
(* values (ensure_ascii is left at its default, True).                     *)
(***************************************************************************)
HexDigitLower(d) == IF d < 10 THEN 48 + d ELSE 87 + d
UEscape(c) ==
    <<92, 117, HexDigitLower(c \div 4096), HexDigitLower((c \div 256) % 16),
      HexDigitLower((c \div 16) % 16), HexDigitLower(c % 16)>>
JsonChar(c) ==
    CASE c = 34 -> <<92, 34>>
      [] c = 92 -> <<92, 92>>
      [] c = 10 -> <<92, 110>>
      [] c = 13 -> <<92, 114>>
      [] c = 9 -> <<92, 116>>
      [] c = 8 -> <<92, 98>>
      [] c = 12 -> <<92, 102>>
      [] OTHER -> IF c >= 32 /\ c <= 126 THEN <<c>>
                  ELSE IF c < 65536 THEN UEscape(c)
                  ELSE UEscape(55296 + ((c - 65536) \div 1024))
                       \o UEscape(56320 + ((c - 65536) % 1024))
JsonString(s) == <<34>> \o Flatten([i \in 1..Len(s) |-> JsonChar(s[i])]) \o <<34>>
JsonValue(v) == IF v.t = "int" THEN IntToStr(v.n) ELSE JsonString(v.s)
JsonDumps(items) ==
    <<123>>
    \o Join(<<44>>, [i \in 1..Len(items) |->
                        JsonString(items[i][1]) \o <<58>> \o JsonValue(items[i][2])])
    \o <<125>>

(***************************************************************************)
(* The protocol handlers.  Each returns HRet(uri) or, when an exception    *)
(* leaves it (the except clause logs and re-raises), HExc(exc, errors).    *)
(* convert_X(data, nm) is the method; X_build is its body once the schema  *)
(* instance m exists, and X_uri the URI it builds from the attributes c.   *)
(***************************************************************************)
HRet(uri) == [exc |-> "", errors |-> <<>>, uri |-> uri]
HExc(exc, errors) == [exc |-> exc, errors |-> errors, uri |-> <<>>]

\* `if cfg.attr: params[key] = cfg.attr`
\* faulty variant: the parameter is added whatever the value
Param_always(key, v) == << <<key, v.s>> >>
Param(key, v) == IF Truthy(v) THEN << <<key, v.s>> >> ELSE <<>>

\* `if cfg.tls: params["tls"] = "1"`
TlsFlag(v) == IF Truthy(v) THEN << << <<116, 108, 115>>, <<49>> >> >> ELSE <<>>

\* f"{address}:{port}"
Server(c) == c["address"].s \o <<58>> \o IntToStr(c["port"].n)

\* faulty variant: the name is appended as it is
Fragment_unquoted(nm) == <<35>> \o nm
\* the fragment every fragment-based handler appends: "#" + quote(name)
Fragment(nm) == <<35>> \o Quote(nm)

vless_params(c) ==
    << << <<101, 110, 99, 114, 121, 112, 116, 105, 111, 110>>, c["encryption"].s >>,  \* "encryption"
       << <<116, 121, 112, 101>>, OrElse(c["network"], <<116, 99, 112>>) >> >>        \* "type", "tcp"
    \o Param(<<115, 101, 99, 117, 114, 105, 116, 121>>, c["tls"])                     \* "security"
    \o Param(<<115, 110, 105>>, c["sni"])                                             \* "sni"
    \o Param(<<102, 108, 111, 119>>, c["flow"])                                       \* "flow"
    \o Param(<<97, 108, 112, 110>>, c["alpn"])                                        \* "alpn"
    \o Param(<<112, 97, 116, 104>>, c["path"])                                        \* "path"
    \o Param(<<104, 111, 115, 116>>, c["host"])                                       \* "host"
    \o Param(<<104, 101, 97, 100, 101, 114, 84, 121, 112, 101>>, c["header_type"])    \* "headerType"
vless_uri(c, nm) ==
    <<118, 108, 101, 115, 115, 58, 47, 47>>   \* "vless://"
    \o c["uuid"].s \o <<64>> \o Server(c) \o <<63>> \o UrlEncode(vless_params(c)) \o Fragment(nm)
vless_build(m, nm) ==
    IF m.errors # <<>> THEN HExc("ValidationError", m.errors) ELSE HRet(vless_uri(m.values, nm))
convert_vless(data, nm) == vless_build(ValidateModel(VLESSConfig, data), nm)

\* the attributes convert_vmess reads from the VMESSConfig instance, in order
VmessAttrsRead ==
    <<"address", "port", "uuid", "aid", "network", "header_type", "tls", "sni",
      "path", "host", "cipher">>
\* reading an attribute the instance does not have raises AttributeError
VmessAttrsExist ==
    \A i \in 1..Len(VmessAttrsRead) : VmessAttrsRead[i] \in FieldNames(VMESSConfig)

vmess_obj(c, nm) ==
    << << <<118>>, StrV(<<50>>) >>,                                       \* "v": "2"
       << <<112, 115>>, StrV(nm) >>,                                      \* "ps"
       << <<97, 100, 100>>, c["address"] >>,                              \* "add"
       << <<112, 111, 114, 116>>, c["port"] >>,                           \* "port"
       << <<105, 100>>, c["uuid"] >>,                                     \* "id"
       << <<97, 105, 100>>, c["aid"] >>,                                  \* "aid"
       << <<110, 101, 116>>, StrV(OrElse(c["network"], <<116, 99, 112>>)) >>,         \* "net", "tcp"
       << <<116, 121, 112, 101>>, StrV(OrElse(c["header_type"], <<110, 111, 110, 101>>)) >>,  \* "type", "none"
       << <<116, 108, 115>>, StrV(OrElse(c["tls"], <<>>)) >>,             \* "tls"
       << <<115, 110, 105>>, StrV(OrElse(c["sni"], <<>>)) >> >>           \* "sni"
    \o (IF Truthy(c["path"]) THEN << << <<112, 97, 116, 104>>, c["path"] >> >> ELSE <<>>)
    \o (IF Truthy(c["host"]) THEN << << <<104, 111, 115, 116>>, c["host"] >> >> ELSE <<>>)
    \o (IF Truthy(c["cipher"])
        THEN << << <<99, 105, 112, 104, 101, 114>>, c["cipher"] >> >> ELSE <<>>)
vmess_uri(c, nm) ==
    <<118, 109, 101, 115, 115, 58, 47, 47>>   \* "vmess://"
    \o B64Encode(Utf8(JsonDumps(vmess_obj(c, nm))))
vmess_build(m, nm) ==
    IF m.errors # <<>> THEN HExc("ValidationError", m.errors)
    ELSE IF ~VmessAttrsExist THEN HExc("AttributeError", <<>>)
    ELSE HRet(vmess_uri(m.values, nm))
convert_vmess(data, nm) == vmess_build(ValidateModel(VMESSConfig, data), nm)

trojan_params(c) ==
    << << <<116, 121, 112, 101>>, OrElse(c["network"], <<116, 99, 112>>) >> >>  \* "type", "tcp"
    \o Param(<<115, 101, 99, 117, 114, 105, 116, 121>>, c["tls"])               \* "security"
    \o Param(<<115, 110, 105>>, c["sni"])                                       \* "sni"
    \o Param(<<97, 108, 112, 110>>, c["alpn"])                                  \* "alpn"
    \o Param(<<112, 97, 116, 104>>, c["path"])                                  \* "path"
    \o Param(<<104, 111, 115, 116>>, c["host"])                                 \* "host"
trojan_uri(c, nm) ==
    <<116, 114, 111, 106, 97, 110, 58, 47, 47>>   \* "trojan://"
    \o c["password"].s \o <<64>> \o Server(c) \o <<63>> \o UrlEncode(trojan_params(c))
    \o Fragment(nm)
trojan_build(m, nm) ==
    IF m.errors # <<>> THEN HExc("ValidationError", m.errors) ELSE HRet(trojan_uri(m.values, nm))
convert_trojan(data, nm) == trojan_build(ValidateModel(TROJANConfig, data), nm)

\* userinfo_plain = f"{method}:{password}"; userinfo = b64encode(userinfo_plain.encode())
ss_userinfo(c) == B64Encode(Utf8(c["method"].s \o <<58>> \o c["password"].s))
ss_uri(c, nm) ==
    <<115, 115, 58, 47, 47>>   \* "ss://"
    \o ss_userinfo(c) \o <<64>> \o Server(c) \o Fragment(nm)
ss_build(m, nm) ==
    IF m.errors # <<>> THEN HExc("ValidationError", m.errors) ELSE HRet(ss_uri(m.values, nm))
convert_shadowsocks(data, nm) == ss_build(ValidateModel(ShadowsocksConfig, data), nm)

\* the tail shared by convert_hysteria1 and convert_hysteria2:
\*   query_string = urlencode(params) if params else ""
\*   if query_string: uri += f"?{query_string}"
\*   uri += f"#{quote(name)}"
QueryString(params) == IF params # <<>> THEN UrlEncode(params) ELSE <<>>
\* faulty variant: the "?" is added whatever the query
QueryPart_always(query_string) == <<63>> \o query_string
QueryPart(query_string) == IF query_string # <<>> THEN <<63>> \o query_string ELSE <<>>

hysteria1_params(c) ==
    TlsFlag(c["tls"])                                                           \* "tls": "1"
    \o Param(<<115, 110, 105>>, c["sni"])                                       \* "sni"
    \o Param(<<97, 108, 112, 110>>, c["alpn"])                                  \* "alpn"
    \o Param(<<112, 114, 111, 116, 111, 99, 111, 108>>, c["protocol_string"])   \* "protocol"
hysteria1_uri(c, nm) ==
    <<104, 121, 115, 116, 101, 114, 105, 97, 58, 47, 47>>   \* "hysteria://"
    \o Quote(c["auth_string"].s) \o <<64>> \o Server(c)
    \o QueryPart(QueryString(hysteria1_params(c))) \o Fragment(nm)
hysteria1_build(m, nm) ==
    IF m.errors # <<>> THEN HExc("ValidationError", m.errors)
    ELSE HRet(hysteria1_uri(m.values, nm))
convert_hysteria1(data, nm) == hysteria1_build(ValidateModel(Hysteria1Config, data), nm)

hysteria2_params(c) ==
    TlsFlag(c["tls"])                                                           \* "tls": "1"
    \o Param(<<115, 110, 105>>, c["sni"])                                       \* "sni"
    \o Param(<<97, 108, 112, 110>>, c["alpn"])                                  \* "alpn"
    \o Param(<<111, 98, 102, 115>>, c["obfs"])                                  \* "obfs"
    \o Param(<<111, 98, 102, 115, 45, 112, 97, 115, 115, 119, 111, 114, 100>>,
             c["obfs_password"])                                                \* "obfs-password"
hysteria2_uri(c, nm) ==
    <<104, 121, 50, 58, 47, 47>>   \* "hy2://"
    \o Quote(c["password"].s) \o <<64>> \o Server(c)
    \o QueryPart(QueryString(hysteria2_params(c))) \o Fragment(nm)
hysteria2_build(m, nm) ==
    IF m.errors # <<>> THEN HExc("ValidationError", m.errors)
    ELSE HRet(hysteria2_uri(m.values, nm))
convert_hysteria2(data, nm) == hysteria2_build(ValidateModel(Hysteria2Config, data), nm)

(***************************************************************************)
(* V2RayConverter.__init__: the handler table, in insertion order.         *)
(***************************************************************************)
\* faulty variant: the alias "hy" is not registered
protocol_handlers_without_hy ==
    << [key |-> <<118, 108, 101, 115, 115>>, handler |-> "convert_vless"],
       [key |-> <<118, 109, 101, 115, 115>>, handler |-> "convert_vmess"],
       [key |-> <<116, 114, 111, 106, 97, 110>>, handler |-> "convert_trojan"],
       [key |-> <<115, 115>>, handler |-> "convert_shadowsocks"],
       [key |-> <<115, 104, 97, 100, 111, 119, 115, 111, 99, 107, 115>>,
        handler |-> "convert_shadowsocks"],
       [key |-> <<104, 121, 115, 116, 101, 114, 105, 97>>, handler |-> "convert_hysteria1"],
       [key |-> <<104, 121, 50>>, handler |-> "convert_hysteria2"],
       [key |-> <<104, 121, 115, 116, 101, 114, 105, 97, 50>>,
        handler |-> "convert_hysteria2"] >>

protocol_handlers ==
    << [key |-> <<118, 108, 101, 115, 115>>, handler |-> "convert_vless"],                 \* "vless"
       [key |-> <<118, 109, 101, 115, 115>>, handler |-> "convert_vmess"],                 \* "vmess"
       [key |-> <<116, 114, 111, 106, 97, 110>>, handler |-> "convert_trojan"],            \* "trojan"
       [key |-> <<115, 115>>, handler |-> "convert_shadowsocks"],                          \* "ss"
       [key |-> <<115, 104, 97, 100, 111, 119, 115, 111, 99, 107, 115>>,
        handler |-> "convert_shadowsocks"],                                                \* "shadowsocks"
       [key |-> <<104, 121>>, handler |-> "convert_hysteria1"],                            \* "hy"
       [key |-> <<104, 121, 115, 116, 101, 114, 105, 97>>, handler |-> "convert_hysteria1"],  \* "hysteria"
       [key |-> <<104, 121, 50>>, handler |-> "convert_hysteria2"],                        \* "hy2"
       [key |-> <<104, 121, 115, 116, 101, 114, 105, 97, 50>>,
        handler |-> "convert_hysteria2"] >>                                                \* "hysteria2"

\* self.protocol_handlers.keys()
HandlerKeys == [i \in 1..Len(protocol_handlers) |-> protocol_handlers[i].key]

\* `protocol in self.protocol_handlers`
Registered(p) == \E i \in 1..Len(protocol_handlers) : protocol_handlers[i].key = p

\* self.protocol_handlers[protocol]
HandlerFor(p) ==
    protocol_handlers[CHOOSE i \in 1..Len(protocol_handlers) : protocol_handlers[i].key = p].handler

\* the schema class a handler instantiates
SchemaClass(h) ==
    CASE h = "convert_vless" -> "VLESSConfig"
      [] h = "convert_vmess" -> "VMESSConfig"
      [] h = "convert_trojan" -> "TROJANConfig"
      [] h = "convert_shadowsocks" -> "ShadowsocksConfig"
      [] h = "convert_hysteria1" -> "Hysteria1Config"
      [] h = "convert_hysteria2" -> "Hysteria2Config"

\* the fields of the schema class a handler instantiates
SchemaFields(h) ==
    CASE h = "convert_vless" -> VLESSConfig
      [] h = "convert_vmess" -> VMESSConfig
      [] h = "convert_trojan" -> TROJANConfig
      [] h = "convert_shadowsocks" -> ShadowsocksConfig
      [] h = "convert_hysteria1" -> Hysteria1Config
      [] h = "convert_hysteria2" -> Hysteria2Config

\* handler(config, name)
CallHandler(h, data, nm) ==
    CASE h = "convert_vless" -> convert_vless(data, nm)
      [] h = "convert_vmess" -> convert_vmess(data, nm)
      [] h = "convert_trojan" -> convert_trojan(data, nm)
      [] h = "convert_shadowsocks" -> convert_shadowsocks(data, nm)
      [] h = "convert_hysteria1" -> convert_hysteria1(data, nm)
      [] h = "convert_hysteria2" -> convert_hysteria2(data, nm)

(***************************************************************************)
(* V2RayConverter.convert.                                                 *)
(*                                                                         *)
(* The argument json_config is represented by the document the text        *)
(* denotes: [wellformed, t, obj].  wellformed is FALSE for a text that     *)
(* json.loads rejects (a trailing comma, an unclosed brace); t is the type *)
(* of the top-level value and obj the mapping of a JSON object.            *)
(***************************************************************************)
Return(uri) ==
    [kind |-> "return", uri |-> uri, exc |-> "", msg |-> "", given |-> <<>>,
     supported |-> <<>>, cause |-> "", errors |-> <<>>]
Raise(exc, msg, given, supported, cause, errors) ==
    [kind |-> "raise", uri |-> <<>>, exc |-> exc, msg |-> msg, given |-> given,
     supported |-> supported, cause |-> cause, errors |-> errors]
NoResult ==
    [kind |-> "none", uri |-> <<>>, exc |-> "", msg |-> "", given |-> <<>>,
     supported |-> <<>>, cause |-> "", errors |-> <<>>]
NoConfig == [t |-> "unset", obj |-> <<>>]

\* json.loads(json_config): the parsed value, or JSONDecodeError
json_loads(j) == [ok |-> j.wellformed, value |-> [t |-> j.t, obj |-> j.obj]]

\* config.get("protocol", "").lower(): the lower-cased name, or the
\* AttributeError of a value that has no .get or no .lower
GetProtocol(cfg) ==
    IF cfg.t # "object" THEN [exc |-> "AttributeError", protocol |-> <<>>]
    ELSE LET v == IF "protocol" \in DOMAIN cfg.obj THEN cfg.obj["protocol"] ELSE StrV(<<>>)
         IN  IF v.t # "str" THEN [exc |-> "AttributeError", protocol |-> <<>>]
             ELSE [exc |-> "", protocol |-> Lower(v.s)]

\* the try block around the handler call: a URI is returned, any exception
\* becomes ValueError("Configuration validation error: ...")
Wrap(out) ==
    IF out.exc = "" THEN Return(out.uri)
    ELSE Raise("ValueError", "Configuration validation error", <<>>, <<>>, out.exc, out.errors)
\* faulty variant: the converter keeps the first URI it built and gives it
\* again to every later call that reaches a handler
HandleOutcome_cached(p, cfg, nm) ==
    IF \E i \in 1..Len(observed) : observed[i].kind = "return"
    THEN observed[CHOOSE i \in 1..Len(observed) :
                     /\ observed[i].kind = "return"
                     /\ \A j \in 1..(i - 1) : observed[j].kind # "return"]
    ELSE Wrap(CallHandler(HandlerFor(p), cfg.obj, nm))
HandleOutcome(p, cfg, nm) == Wrap(CallHandler(HandlerFor(p), cfg.obj, nm))

\* the whole of convert(json_config, name) as a function of its arguments
Dispatch(got, cfg, nm) ==
    IF got.exc # "" THEN Raise(got.exc, "", <<>>, <<>>, "", <<>>)
    ELSE IF ~Registered(got.protocol)
    THEN Raise("ValueError", "Unsupported protocol", got.protocol, HandlerKeys, "", <<>>)
    ELSE HandleOutcome(got.protocol, cfg, nm)
Parsed(parsed, nm) ==
    IF ~parsed.ok
    THEN Raise("ValueError", "Invalid JSON format", <<>>, <<>>, "JSONDecodeError", <<>>)
    ELSE Dispatch(GetProtocol(parsed.value), parsed.value, nm)
Convert(j, nm) == Parsed(json_loads(j), nm)

(***************************************************************************)
(* The calls the model makes.                                              *)
(***************************************************************************)
\* the default of the parameter name: "V2Ray Server"
DefaultName == <<86, 50, 82, 97, 121, 32, 83, 101, 114, 118, 101, 114>>

SampleUuid == <<49, 50, 51, 52, 53, 54, 55, 56, 45, 49, 50, 51, 52, 45, 49, 50, 51, 52, 45, 49, 50, 51, 52, 45, 49, 50, 51, 52, 53, 54, 55, 56, 57, 97, 98, 99>>  \* "12345678-1234-1234-1234-123456789abc"
SampleAddress == <<97, 46, 99, 111, 109>>  \* "a.com"
SamplePassword == <<112, 97, 115, 115>>  \* "pass"
SampleMethod == <<97, 101, 115, 45, 50, 53, 54, 45, 103, 99, 109>>  \* "aes-256-gcm"
SampleAuth == <<97, 117, 116, 104>>  \* "auth"

Handlers ==
    {"convert_vless", "convert_vmess", "convert_trojan", "convert_shadowsocks",
     "convert_hysteria1", "convert_hysteria2"}

\* the name a config of each protocol is usually written with
CanonicalKey(h) ==
    CASE h = "convert_vless" -> <<118, 108, 101, 115, 115>>
      [] h = "convert_vmess" -> <<118, 109, 101, 115, 115>>
      [] h = "convert_trojan" -> <<116, 114, 111, 106, 97, 110>>
      [] h = "convert_shadowsocks" -> <<115, 104, 97, 100, 111, 119, 115, 111, 99, 107, 115>>
      [] h = "convert_hysteria1" -> <<104, 121, 115, 116, 101, 114, 105, 97>>
      [] h = "convert_hysteria2" -> <<104, 121, 115, 116, 101, 114, 105, 97, 50>>

\* the required fields of each protocol, with valid values, under the key
\* names of the schema table (uuid, authString)
MinimalFields(h) ==
    CASE h \in {"convert_vless", "convert_vmess"} ->
            [uuid |-> StrV(SampleUuid), address |-> StrV(SampleAddress), port |-> IntV(443)]
      [] h \in {"convert_trojan", "convert_hysteria2"} ->
            [password |-> StrV(SamplePassword), address |-> StrV(SampleAddress),
             port |-> IntV(443)]
      [] h = "convert_shadowsocks" ->
            [method |-> StrV(SampleMethod), password |-> StrV(SamplePassword),
             address |-> StrV(SampleAddress), port |-> IntV(443)]
      [] h = "convert_hysteria1" ->
            [authString |-> StrV(SampleAuth), address |-> StrV(SampleAddress),
             port |-> IntV(443)]

\* the input key that carries a required field
KeyOfField(f) == IF f = "auth_string" THEN "authString" ELSE f
FieldOfKey(k) == IF k = "authString" THEN "auth_string" ELSE IF k = "id" THEN "uuid" ELSE k

JsonObject(obj) == [wellformed |-> TRUE, t |-> "object", obj |-> obj]
JsonOther(t) == [wellformed |-> TRUE, t |-> t, obj |-> <<>>]
Malformed == [wellformed |-> FALSE, t |-> "unset", obj |-> <<>>]

With(obj, k, v) == (k :> v) @@ obj
Without(obj, keys) == [k \in (DOMAIN obj) \ keys |-> obj[k]]
MinimalConfig(h) == With(MinimalFields(h), "protocol", StrV(CanonicalKey(h)))

UpperChar(c) == IF c >= 97 /\ c <= 122 THEN c - 32 ELSE c
Upper(s) == [i \in 1..Len(s) |-> UpperChar(s[i])]
Capitalize(s) == [i \in 1..Len(s) |-> IF i = 1 THEN UpperChar(s[i]) ELSE s[i]]

RegisteredKeys == {HandlerKeys[i] : i \in 1..Len(HandlerKeys)}
UnknownNames ==
    { <<>>, <<102, 111, 111>>, <<70, 79, 79>>, <<118, 108, 101, 115>>, <<118, 108, 101, 115, 115, 50>>, <<115, 111, 99, 107, 115>>, <<104, 121, 51>> }
ProtocolTexts ==
    RegisteredKeys \cup {Upper(k) : k \in RegisteredKeys}
    \cup {Capitalize(k) : k \in RegisteredKeys} \cup UnknownNames

\* the handler a protocol text selects, convert_vless for a text that selects none
FieldsFor(ptext) ==
    LET hs == {protocol_handlers[i].handler :
                 i \in {j \in 1..Len(protocol_handlers) :
                          Lower(protocol_handlers[j].key) = Lower(ptext)}}
    IN  IF hs = {} THEN MinimalFields("convert_vless") ELSE MinimalFields(CHOOSE h \in hs : TRUE)

ProtocolFamily ==
    {JsonObject(With(FieldsFor(p), "protocol", StrV(p))) : p \in ProtocolTexts}
    \cup {JsonObject(MinimalFields(h)) : h \in Handlers}
    \cup {JsonObject(With(MinimalFields("convert_vless"), "protocol", v)) :
            v \in {IntV(5), None, Other}}

PortSamples == {0 - 1, 0, 1, 443, 65535, 65536}
PortFamily ==
    {JsonObject(With(MinimalConfig(h), "port", IntV(n))) : h \in Handlers, n \in PortSamples}

UuidSamples ==
    { SampleUuid,
      Upper(SampleUuid),
      <<49, 50, 51, 52, 53, 54, 55, 56, 49, 50, 51, 52, 49, 50, 51, 52, 49, 50, 51, 52, 49, 50, 51, 52, 53, 54, 55, 56, 57, 97, 98, 99>>,
      <<123, 49, 50, 51, 52, 53, 54, 55, 56, 45, 49, 50, 51, 52, 45, 49, 50, 51, 52, 45, 49, 50, 51, 52, 45, 49, 50, 51, 52, 53, 54, 55, 56, 57, 97, 98, 99, 125>>,
      <<117, 114, 110, 58, 117, 117, 105, 100, 58, 49, 50, 51, 52, 53, 54, 55, 56, 45, 49, 50, 51, 52, 45, 49, 50, 51, 52, 45, 49, 50, 51, 52, 45, 49, 50, 51, 52, 53, 54, 55, 56, 57, 97, 98, 99>>,
      <<49, 50, 51, 52, 53, 54, 55, 45, 56, 49, 50, 51, 52, 45, 49, 50, 51, 52, 45, 49, 50, 51, 52, 45, 49, 50, 51, 52, 53, 54, 55, 56, 57, 97, 98, 99>>,
      <<48, 120, 51, 52, 53, 54, 55, 56, 45, 49, 50, 51, 52, 45, 49, 50, 51, 52, 45, 49, 50, 51, 52, 45, 49, 50, 51, 52, 53, 54, 55, 56, 57, 97, 98, 99>>,
      <<49, 50, 51, 52, 53, 54, 55, 56, 45, 49, 50, 51, 52, 45, 49, 50, 51, 52, 45, 49, 50, 51, 52, 45, 49, 50, 51, 52, 53, 54, 55, 56, 57, 97, 98, 103>>,
      <<49, 50, 51, 52, 53, 54, 55, 56, 45, 49, 50, 51, 52, 45, 49, 50, 51, 52, 45, 49, 50, 51, 52, 45, 49, 50, 51, 52, 53, 54, 55, 56, 57, 97, 98>>,
      <<110, 111, 116, 45, 97, 45, 117, 117, 105, 100>>,
      <<>> }
UuidFamily ==
    {JsonObject(With(MinimalConfig(h), k, StrV(u))) :
        h \in {"convert_vless", "convert_vmess"}, k \in {"uuid"}, u \in UuidSamples}
    \cup {JsonObject(With(Without(MinimalConfig(h), {"uuid"}), "id", StrV(u))) :
        h \in {"convert_vless", "convert_vmess"}, u \in UuidSamples}

\* configs with any subset of the required fields present, the port valid or not
MissingFamily ==
    {JsonObject(With(Without(MinimalConfig(h), gone), "port", IntV(n))) :
        h \in Handlers, gone \in SUBSET {"uuid", "password", "method", "authString", "address"},
        n \in {0, 443}}
    \cup {JsonObject(Without(MinimalConfig(h), gone \cup {"port"})) :
        h \in Handlers, gone \in SUBSET {"uuid", "password", "method", "authString", "address"}}

\* configs with a field of the wrong type or an invalid value
InvalidFamily ==
    {JsonObject(With(MinimalConfig(h), "port", v)) :
        h \in Handlers, v \in {StrV(<<120>>), None, Other}}
    \cup {JsonObject(With(MinimalConfig(h), "address", v)) : h \in Handlers, v \in {None, Other}}
    \cup {JsonObject(With(MinimalConfig(h), "password", StrV(<<97, 98, 99>>))) :
            h \in {"convert_trojan", "convert_shadowsocks", "convert_hysteria2"}}
    \cup {JsonObject(With(MinimalConfig("convert_shadowsocks"), "method", StrV(<<114, 99, 52>>)))}

\* shadowsocks configs with each allowed method and with methods that are not allowed
MethodSamples ==
    {valid_methods[i] : i \in 1..Len(valid_methods)}
    \cup { <<114, 99, 52>>, <<65, 69, 83, 45, 50, 53, 54, 45, 71, 67, 77>>, <<97, 101, 115, 45, 50, 53, 54, 45, 103, 99, 109, 32>>, <<>> }
MethodFamily ==
    {JsonObject(With(MinimalConfig("convert_shadowsocks"), "method", StrV(m))) : m \in MethodSamples}

\* passwords and authStrings of every length up to MaxPasswordLen, and two of
\* characters that take two bytes each
PasswordSamples ==
    {[i \in 1..n |-> 112] : n \in 0..MaxPasswordLen} \cup { <<233, 233, 233>>, <<233, 233, 233, 233>> }
PasswordFamily ==
    {JsonObject(With(MinimalConfig(h), "password", StrV(pw))) :
        h \in {"convert_trojan", "convert_shadowsocks", "convert_hysteria2"}, pw \in PasswordSamples}
    \cup {JsonObject(With(MinimalConfig("convert_hysteria1"), "authString", StrV(pw))) :
            pw \in PasswordSamples}

\* credentials with the characters that delimit the parts of a URI
CredentialSamples ==
    { <<112, 64, 115, 115>>,      \* "p@ss"
      <<112, 35, 115, 115>>,      \* "p#ss"
      <<112, 63, 115, 115>>,      \* "p?ss"
      <<112, 47, 115, 115>>,      \* "p/ss"
      <<63, 63, 63, 112>> }       \* "???p"
CredentialFamily ==
    {JsonObject(With(MinimalConfig(h), "password", StrV(pw))) :
        h \in {"convert_trojan", "convert_shadowsocks", "convert_hysteria2"}, pw \in CredentialSamples}
    \cup {JsonObject(With(MinimalConfig("convert_hysteria1"), "authString", StrV(pw))) :
            pw \in CredentialSamples}

\* a value for each optional key
OptionSample(k) ==
    CASE k = "tls" -> <<116, 108, 115>>
      [] k = "sni" -> <<115, 46, 105, 111>>
      [] k = "flow" -> <<120, 116, 108, 115>>
      [] k = "alpn" -> <<104, 50, 44, 104, 51>>
      [] k = "path" -> <<47, 112, 32, 97>>
      [] k = "host" -> <<104, 46, 105, 111>>
      [] k \in {"headerType", "header_type"} -> <<104, 116, 116, 112>>
      [] k \in {"protocolString", "protocol_string"} -> <<117, 100, 112>>
      [] k = "obfs" -> <<115, 97, 108, 97, 109, 97, 110, 100, 101, 114>>
      [] k \in {"obfsPassword", "obfs_password"} -> <<115, 51, 99, 114, 101, 116>>
      [] k = "network" -> <<119, 115>>
\* the optional input keys of the protocols whose query is built from them
OptionalKeys(h) ==
    CASE h = "convert_vless" -> {"tls", "sni", "flow", "alpn", "path", "host", "headerType"}
      [] h = "convert_hysteria1" -> {"tls", "sni", "alpn", "protocolString"}
      [] h = "convert_hysteria2" -> {"tls", "sni", "alpn", "obfs", "obfsPassword"}
\* base with every key of choice given: its sample value ("set") or "" ("empty")
WithOptions(base, choice) ==
    [k \in (DOMAIN base) \cup {x \in DOMAIN choice : choice[x] # "absent"} |->
        IF k \in DOMAIN choice /\ choice[k] # "absent"
        THEN IF choice[k] = "set" THEN StrV(OptionSample(k)) ELSE StrV(<<>>)
        ELSE base[k]]
\* vless with every subset of its optional keys, the hysterias with every
\* optional key absent, set or empty; then each optional key null, and network
OptionalFamily ==
    {JsonObject(WithOptions(MinimalConfig("convert_vless"), c)) :
        c \in [OptionalKeys("convert_vless") -> {"absent", "set"}]}
    \cup {JsonObject(WithOptions(MinimalConfig(h), c)) :
            h \in {"convert_hysteria1"}, c \in [OptionalKeys("convert_hysteria1") -> {"absent", "set", "empty"}]}
    \cup {JsonObject(WithOptions(MinimalConfig(h), c)) :
            h \in {"convert_hysteria2"}, c \in [OptionalKeys("convert_hysteria2") -> {"absent", "set", "empty"}]}
    \cup UNION { {JsonObject(With(MinimalConfig(h), k, v)) : k \in OptionalKeys(h), v \in {None, StrV(<<>>)}} :
                  h \in {"convert_vless", "convert_hysteria1", "convert_hysteria2"} }
    \cup {JsonObject(With(MinimalConfig("convert_vless"), "network", v)) :
            v \in {StrV(OptionSample("network")), StrV(<<>>), None}}
\* configs that give an aliased field under its field name
FieldNameFamily ==
    { JsonObject(With(MinimalConfig("convert_vless"), "header_type", StrV(OptionSample("header_type")))),
       JsonObject(With(Without(MinimalConfig("convert_hysteria1"), {"authString"}),
                       "auth_string", StrV(SampleAuth))),
       JsonObject(With(MinimalConfig("convert_hysteria1"), "protocol_string",
                       StrV(OptionSample("protocol_string")))),
       JsonObject(With(With(MinimalConfig("convert_hysteria2"), "obfs", StrV(OptionSample("obfs"))),
                       "obfs_password", StrV(OptionSample("obfs_password")))),
       JsonObject(With(With(MinimalConfig("convert_hysteria2"), "obfs", StrV(OptionSample("obfs"))),
                       "obfsPassword", StrV(OptionSample("obfsPassword")))) }

\* configs with every required field present and several of them invalid
MultiInvalidFamily ==
    {JsonObject(With(With(MinimalConfig(h), "uuid", StrV(<<110, 111, 116, 45, 97, 45, 117, 117, 105, 100>>)), "port", IntV(n))) :
        h \in {"convert_vless", "convert_vmess"}, n \in {0, 65536}}
    \cup {JsonObject(With(With(MinimalConfig(h), "password", StrV(<<97, 98, 99>>)), "port", IntV(0))) :
            h \in {"convert_trojan", "convert_shadowsocks", "convert_hysteria2"}}
    \cup {JsonObject(With(With(With(MinimalConfig("convert_shadowsocks"), "method", StrV(<<114, 99, 52>>)),
                                 "password", StrV(pw)), "port", IntV(n))) :
            pw \in {<<97, 98, 99>>, SamplePassword}, n \in {443, 65536}}

NotAnObject == {JsonOther(t) : t \in {"none", "other", "str", "int"}}

NameAlphabet == {97, 35, 63, 47, 32, 233, 126, 37}   \* a # ? / space e-acute ~ %
Names == SeqsUpTo(NameAlphabet, MaxNameLen)

Configs ==
    ProtocolFamily \cup PortFamily \cup UuidFamily \cup MissingFamily \cup InvalidFamily
    \cup MethodFamily \cup PasswordFamily \cup OptionalFamily \cup FieldNameFamily
    \cup MultiInvalidFamily \cup CredentialFamily
    \cup NotAnObject \cup {Malformed}

Calls ==
    {[json |-> j, name |-> DefaultName] : j \in Configs}
    \cup {[json |-> JsonObject(MinimalConfig(h)), name |-> n] : h \in Handlers, n \in Names}

\* the calls whose outcome the caller keeps, to compare a repeated call with:
\* one that succeeds and one that fails validation
Probes ==
    << [json |-> JsonObject(MinimalConfig("convert_vless")), name |-> <<35>>],
       [json |-> JsonObject(With(MinimalConfig("convert_shadowsocks"), "method", StrV(<<114, 99, 52>>))),
        name |-> DefaultName] >>

(***************************************************************************)
(* RateLimiter (src/utils_Version2.py).  A timestamp is a whole number of  *)
(* seconds; user_requests is a function whose domain is the set of users   *)
(* the dict has a key for.                                                 *)
(***************************************************************************)
\* the defaults of is_rate_limited: max_requests and time_window
DefaultMaxRequests == 30
DefaultTimeWindow == 60
\* cleanup_old_users keeps a user with a request in the last 3600 seconds
HourWindow == 3600

UserIds == {101, 102, 103}
\* the user whose requests are counted, and the other users
UserUnderTest == 101

NoAnswer == [op |-> "", user |-> 0, value |-> FALSE]
Answer(op, user_id, value) == [op |-> op, user |-> user_id, value |-> value]

\* [req_time for req_time in reqs if req_time > cutoff_time]
IsAfter(cutoff_time, reqs) == {i \in 1..Len(reqs) : reqs[i] > cutoff_time}
RECURSIVE Keep(_, _)
Keep(reqs, kept) ==
    IF reqs = <<>> THEN <<>>
    ELSE IF (Len(reqs) \in kept)
         THEN Append(Keep(SubSeq(reqs, 1, Len(reqs) - 1), kept), reqs[Len(reqs)])
         ELSE Keep(SubSeq(reqs, 1, Len(reqs) - 1), kept)
\* faulty variant: the old requests are not removed
RecentRequests_all(reqs, cutoff_time) == reqs
RecentRequests(reqs, cutoff_time) == Keep(reqs, IsAfter(cutoff_time, reqs))

\* lines 240-250
add_request(user_id) ==
    /\ user_requests' =
          [u \in (DOMAIN user_requests) \cup {user_id} |->
              IF u = user_id
              THEN Append(IF user_id \in DOMAIN user_requests THEN user_requests[user_id] ELSE <<>>,
                          clock)
              ELSE user_requests[u]]
    /\ recorded' = [recorded EXCEPT ![user_id] = Append(@, clock)]
    /\ answer' = NoAnswer
    /\ UNCHANGED clock
    /\ UNCHANGED <<converter_vars, app_vars, bot_vars>>

\* lines 252-279
is_rate_limited(user_id, max_requests, time_window) ==
    /\ IF user_id \notin DOMAIN user_requests
       THEN /\ answer' = Answer("is_rate_limited", user_id, FALSE)
            /\ UNCHANGED user_requests
       ELSE /\ user_requests' =
                  [user_requests EXCEPT ![user_id] = RecentRequests(@, clock - time_window)]
            /\ answer' = Answer("is_rate_limited", user_id,
                                Len(RecentRequests(user_requests[user_id], clock - time_window))
                                    >= max_requests)
    /\ UNCHANGED <<clock, recorded>>
    /\ UNCHANGED <<converter_vars, app_vars, bot_vars>>

\* time passes: time.time() returns the next of the given readings
Tick(readings) ==
    /\ \E i \in 1..Len(readings) : readings[i] > clock
    /\ clock' = readings[CHOOSE i \in 1..Len(readings) :
                            readings[i] > clock /\ \A j \in 1..(i - 1) : readings[j] <= clock]
    /\ answer' = NoAnswer
    /\ UNCHANGED <<user_requests, recorded>>
    /\ UNCHANGED <<converter_vars, app_vars, bot_vars>>

\* the times at which the limiter is called: 2 is inside the window of 61, 0 is not
RateReadings == <<0, 2, 61>>
RateUsers == {101, 102}
\* how many requests the model records for a user
Quota(u) == IF u = UserUnderTest THEN MaxRecorded ELSE MaxOtherRecorded

\* any(req > current_time - 3600 for req in reqs)
AnyRecent(reqs, current_time) == IsAfter(current_time - HourWindow, reqs) # {}

\* lines 281-295; the method returns None
cleanup_old_users(max_users) ==
    /\ IF Cardinality(DOMAIN user_requests) > max_users
       THEN user_requests' =
               [uid \in {u \in DOMAIN user_requests : AnyRecent(user_requests[u], clock)} |->
                   user_requests[uid]]
       ELSE UNCHANGED user_requests
    /\ answer' = Answer("cleanup_old_users", 0, FALSE)
    /\ UNCHANGED <<clock, recorded>>
    /\ UNCHANGED <<converter_vars, app_vars, bot_vars>>

\* the times at which the limiter is called: at 3700 a request made at 3000 is
\* of the last hour and one made at 0 is not
CleanupReadings == <<0, 3000, 3700>>
\* the values of max_users
CleanupLimits == {1, 2}

(***************************************************************************)
(* The conversation handlers of V2RayTelegramBot (src/telegram_bot.py).    *)
(* The ConversationHandler of build_application keeps one state for each   *)
(* (chat id, user id) pair (per_chat and per_user are left at their        *)
(* defaults); user_configs is keyed by the user id alone.  The application *)
(* handles one update at a time, so a handler runs as one step.  A JSON    *)
(* text is the structure json.loads makes of it, as in convert.            *)
(***************************************************************************)
\* lines 15-16, and ConversationHandler.END
WAITING_FOR_JSON == 1
WAITING_FOR_NAME == 2
END == 0 - 1
\* line 195: len(server_name) > 100
MaxServerNameLen == 100

ChatIds == {1, 2}
BotUsers == {UserUnderTest}
ConversationKeys == ChatIds \X BotUsers

NothingAccepted == Malformed
NoReply == [kind |-> "none", uri |-> <<>>, name |-> <<>>, accepted |-> NothingAccepted]
Reply(kind) == [kind |-> kind, uri |-> <<>>, name |-> <<>>, accepted |-> NothingAccepted]
\* the reply of lines 220-247: the URI, for the name given, in a conversation
\* whose receive_json had accepted the given text
ReplyUri(uri, server_name, was_accepted) ==
    [kind |-> "success", uri |-> uri, name |-> server_name, accepted |-> was_accepted]

\* str.strip(): the white space of ASCII
Whitespace == {32, 9, 10, 11, 12, 13}

\* line 153: "protocol" not in config; the test raises TypeError for a number
\* or null
ProtocolKeyTest(cfg) ==
    IF cfg.t = "object" THEN IF "protocol" \in DOMAIN cfg.obj THEN "present" ELSE "absent"
    ELSE "TypeError"

\* del self.user_configs[user_id]
DelConfig(configs, user_id) == [u \in (DOMAIN configs) \ {user_id} |-> configs[u]]

\* lines 101-131: /convert, as entry point or (allow_reentry, fallbacks) in a
\* running conversation
convert_start(key) ==
    /\ conversations' = [conversations EXCEPT ![key] = WAITING_FOR_JSON]
    /\ replies' = [replies EXCEPT ![key] = Reply("send_json")]
    /\ accepted' = [accepted EXCEPT ![key] = NothingAccepted]
    /\ UNCHANGED user_configs
    /\ UNCHANGED <<converter_vars, limiter_vars, app_vars>>

\* lines 133-180, for a text message in state WAITING_FOR_JSON
receive_json(key, json_text) ==
    /\ conversations[key] = WAITING_FOR_JSON
    /\ IF ~json_loads(json_text).ok
       THEN /\ replies' = [replies EXCEPT ![key] = Reply("invalid_json")]
            /\ UNCHANGED <<conversations, user_configs, accepted>>
       ELSE IF ProtocolKeyTest(json_loads(json_text).value) = "TypeError"
       THEN /\ replies' = [replies EXCEPT ![key] = Reply("json_error")]
            /\ UNCHANGED <<conversations, user_configs, accepted>>
       ELSE IF ProtocolKeyTest(json_loads(json_text).value) = "absent"
       THEN /\ replies' = [replies EXCEPT ![key] = Reply("missing_protocol")]
            /\ UNCHANGED <<conversations, user_configs, accepted>>
       ELSE /\ user_configs' = (key[2] :> json_text) @@ user_configs
            /\ accepted' = [accepted EXCEPT ![key] = json_text]
            /\ replies' = [replies EXCEPT ![key] = Reply("json_received")]
            /\ conversations' = [conversations EXCEPT ![key] = WAITING_FOR_NAME]
    /\ UNCHANGED <<converter_vars, limiter_vars, app_vars>>

\* lines 212-274: what receive_name does with the outcome of
\* self.converter.convert(json_config, server_name)
receive_name_converted(key, server_name, out) ==
    /\ IF out.kind = "return"
       THEN /\ user_configs' = DelConfig(user_configs, key[2])
            /\ replies' = [replies EXCEPT ![key] = ReplyUri(out.uri, server_name, accepted[key])]
       ELSE /\ replies' = [replies EXCEPT ![key] =
                              Reply(IF out.exc = "ValueError" THEN "conversion_error"
                                    ELSE "unexpected_error")]
            /\ UNCHANGED user_configs
    /\ conversations' = [conversations EXCEPT ![key] = END]
    /\ accepted' = [accepted EXCEPT ![key] = NothingAccepted]

\* lines 182-210, after server_name = update.message.text.strip()
receive_name_stripped(key, server_name) ==
    IF server_name = <<>>
    THEN /\ replies' = [replies EXCEPT ![key] = Reply("invalid_name")]
         /\ UNCHANGED <<conversations, user_configs, accepted>>
    ELSE IF Len(server_name) > MaxServerNameLen
    THEN /\ replies' = [replies EXCEPT ![key] = Reply("name_too_long")]
         /\ UNCHANGED <<conversations, user_configs, accepted>>
    ELSE IF key[2] \notin DOMAIN user_configs
    THEN /\ replies' = [replies EXCEPT ![key] = Reply("not_found")]
         /\ conversations' = [conversations EXCEPT ![key] = END]
         /\ accepted' = [accepted EXCEPT ![key] = NothingAccepted]
         /\ UNCHANGED user_configs
    ELSE receive_name_converted(key, server_name, Convert(user_configs[key[2]], server_name))

\* lines 182-274, for a text message in state WAITING_FOR_NAME
receive_name(key, text) ==
    /\ conversations[key] = WAITING_FOR_NAME
    /\ receive_name_stripped(key, Strip(text, Whitespace))
    /\ UNCHANGED <<converter_vars, limiter_vars, app_vars>>

\* lines 276-294: /cancel, a fallback of a running conversation
cancel(key) ==
    /\ conversations[key] # END
    /\ user_configs' = DelConfig(user_configs, key[2])
    /\ replies' = [replies EXCEPT ![key] = Reply("cancelled")]
    /\ conversations' = [conversations EXCEPT ![key] = END]
    /\ accepted' = [accepted EXCEPT ![key] = NothingAccepted]
    /\ UNCHANGED <<converter_vars, limiter_vars, app_vars>>

\* the texts a user sends while the bot waits for JSON: two configurations
\* that convert, one of an unsupported protocol, one whose protocol is a
\* number, one without protocol, a number, and a text that is not JSON
BotJson ==
    { JsonObject(MinimalConfig("convert_vless")),
      JsonObject(MinimalConfig("convert_trojan")),
      JsonObject(With(MinimalFields("convert_vless"), "protocol", StrV(<<102, 111, 111>>))),
      JsonObject(With(MinimalFields("convert_vless"), "protocol", IntV(1))),
      JsonObject(MinimalFields("convert_vless")),
      JsonOther("int"),
      Malformed }
\* the texts a user sends while the bot waits for a name: "a", " a ", a blank,
\* and a name of MaxServerNameLen + 1 characters
BotNames ==
    { <<97>>, <<32, 97, 32>>, <<32>>, [i \in 1..(MaxServerNameLen + 1) |-> 97] }

(***************************************************************************)
(* The process of src/main_Version2.py: asyncio.run(main()) inside the     *)
(* try block of the module, main() inside it, BotApplication.start inside  *)
(* the try block of main().  An exception in flight is at one of the three *)
(* try blocks: app_pc is "unwind_start", "unwind_main" or "unwind_module". *)
(***************************************************************************)
NoSignal == [sig |-> "", running |-> FALSE]

\* the exception classes the except clauses tell apart; SystemExit and
\* CancelledError derive from BaseException, not from Exception
IsException(e) == e \in {"ValueError", "Exception"}

\* sys.exit(code): SystemExit(code) propagates to the enclosing try block
SysExit(code, to) ==
    /\ raised' = "SystemExit"
    /\ exit_code' = code
    /\ app_pc' = to

\* the interpreter ends with the given status
ProcessExit(code) ==
    /\ raised' = ""
    /\ exit_code' = code
    /\ app_pc' = "exited"

\* main_Version2.py line 5: `from config import TELEGRAM_BOT_TOKEN`; config
\* raises ValueError when the variable is not set, outside every try block
ImportConfig(t) ==
    /\ app_pc = "import"
    /\ token' = t
    /\ IF t = "unset" THEN ProcessExit(1)
       ELSE app_pc' = "boot" /\ UNCHANGED <<raised, exit_code>>
    /\ UNCHANGED <<running, bot, signalled>>
    /\ UNCHANGED <<converter_vars, limiter_vars, bot_vars>>

\* main() lines 70-74: app = BotApplication(); signal.signal(SIGINT, handle_signal);
\* signal.signal(SIGTERM, handle_signal)
InstallHandlers ==
    /\ app_pc = "boot"
    /\ app_pc' = "installed"
    /\ UNCHANGED <<token, running, bot, raised, exit_code, signalled>>
    /\ UNCHANGED <<converter_vars, limiter_vars, bot_vars>>

\* BotApplication.start lines 20-42, up to `await self.bot.run()`
Start ==
    /\ app_pc = "installed"
    /\ IF token # "set"
       THEN /\ raised' = "ValueError"
            /\ app_pc' = "unwind_start"
            /\ UNCHANGED <<running, bot>>
       ELSE /\ bot' = "polling"
            /\ running' = TRUE
            /\ app_pc' = "polling"
            /\ UNCHANGED raised
    /\ UNCHANGED <<token, exit_code, signalled>>
    /\ UNCHANGED <<converter_vars, limiter_vars, bot_vars>>

\* self.bot.run() raises (the network, the library)
RunFails ==
    /\ app_pc = "polling"
    /\ raised' = "Exception"
    /\ app_pc' = "unwind_start"
    /\ UNCHANGED <<token, running, bot, exit_code, signalled>>
    /\ UNCHANGED <<converter_vars, limiter_vars, bot_vars>>

\* the process receives sig.  Before the handlers are installed SIGINT raises
\* KeyboardInterrupt in main() and SIGTERM ends the process.  Afterwards
\* handle_signal (lines 62-65) runs: sys.exit(0).  The SystemExit is raised in
\* the code that is executing: the main task itself (where = "task"), or the
\* event loop or another task (where = "loop"), and then asyncio.run cancels
\* the main task, which sees CancelledError at its await, before the
\* SystemExit reaches the module.
Signal(sig, where) ==
    /\ app_pc \in {"boot", "installed", "polling"}
    /\ signalled = NoSignal
    /\ signalled' = [sig |-> sig, running |-> running]
    /\ IF app_pc = "boot"
       THEN IF sig = "SIGINT"
            THEN /\ raised' = "KeyboardInterrupt"
                 /\ app_pc' = "unwind_module"
                 /\ UNCHANGED exit_code
            ELSE ProcessExit(143)
       ELSE /\ exit_code' = 0
            /\ raised' = IF where = "task" THEN "SystemExit" ELSE "CancelledError"
            /\ app_pc' = IF app_pc = "polling" THEN "unwind_start" ELSE "unwind_main"
    /\ UNCHANGED <<token, running, bot>>
    /\ UNCHANGED <<converter_vars, limiter_vars, bot_vars>>

\* the except clauses of BotApplication.start, lines 44-51
UnwindStart ==
    /\ app_pc = "unwind_start"
    /\ IF raised = "ValueError" THEN SysExit(1, "unwind_main")
       ELSE IF raised = "KeyboardInterrupt" THEN ProcessExit(0)
       ELSE IF IsException(raised) THEN SysExit(1, "unwind_main")
       ELSE app_pc' = "unwind_main" /\ UNCHANGED <<raised, exit_code>>
    /\ UNCHANGED <<token, running, bot, signalled>>
    /\ UNCHANGED <<converter_vars, limiter_vars, bot_vars>>

\* V2RayTelegramBot.stop, src/telegram_bot.py lines 368-374
BotStop(b) == IF b = "polling" THEN "stopped" ELSE b
\* BotApplication.stop, lines 53-59: the bot and the flag afterwards
BotApplicationStop(b, r) ==
    IF b # "none" /\ r THEN [bot |-> BotStop(b), running |-> FALSE]
    ELSE [bot |-> b, running |-> r]

\* the except clauses of main(), lines 76-83
UnwindMain ==
    /\ app_pc = "unwind_main"
    /\ IF raised = "KeyboardInterrupt"
       THEN /\ bot' = BotApplicationStop(bot, running).bot
            /\ running' = BotApplicationStop(bot, running).running
            /\ ProcessExit(0)
       ELSE /\ IF IsException(raised) THEN SysExit(1, "unwind_module")
               ELSE /\ app_pc' = "unwind_module"
                    /\ raised' = "SystemExit"
                    /\ UNCHANGED exit_code
            /\ UNCHANGED <<bot, running>>
    /\ UNCHANGED <<token, signalled>>
    /\ UNCHANGED <<converter_vars, limiter_vars, bot_vars>>

\* the except clauses of the module, lines 87-94
UnwindModule ==
    /\ app_pc = "unwind_module"
    /\ IF raised = "KeyboardInterrupt" THEN ProcessExit(0)
       ELSE IF IsException(raised) THEN ProcessExit(1)
       ELSE ProcessExit(exit_code)
    /\ UNCHANGED <<token, running, bot, signalled>>
    /\ UNCHANGED <<converter_vars, limiter_vars, bot_vars>>

(***************************************************************************)
(* The state machine: one action per step of convert.                      *)
(***************************************************************************)
Init ==
    /\ pc = "idle"
    /\ json_config = Malformed
    /\ name = <<>>
    /\ config = NoConfig
    /\ protocol = <<>>
    /\ handler = ""
    /\ schema = ""
    /\ result = NoResult
    /\ observed = [i \in 1..Len(Probes) |-> NoResult]
    /\ user_requests = <<>>
    /\ clock = 0
    /\ recorded = [u \in UserIds |-> <<>>]
    /\ answer = NoAnswer
    /\ app_pc = "import"
    /\ token = ""
    /\ running = FALSE
    /\ bot = "none"
    /\ raised = ""
    /\ exit_code = 0 - 1
    /\ signalled = NoSignal
    /\ conversations = [k \in ConversationKeys |-> END]
    /\ user_configs = <<>>
    /\ accepted = [k \in ConversationKeys |-> NothingAccepted]
    /\ replies = [k \in ConversationKeys |-> NoReply]

\* a caller invokes convert(json_config, name)
Call(c) ==
    /\ pc = "idle"
    /\ pc' = "json_loads"
    /\ json_config' = c.json
    /\ name' = c.name
    /\ config' = NoConfig
    /\ protocol' = <<>>
    /\ handler' = ""
    /\ schema' = ""
    /\ result' = NoResult
    /\ UNCHANGED observed
    /\ UNCHANGED <<limiter_vars, app_vars, bot_vars>>

\* lines 45-49: config = json.loads(json_config), JSONDecodeError -> ValueError
JsonLoads ==
    /\ pc = "json_loads"
    /\ LET parsed == json_loads(json_config)
       IN  IF parsed.ok
           THEN /\ config' = parsed.value
                /\ pc' = "get_protocol"
                /\ UNCHANGED result
           ELSE /\ result' = Raise("ValueError", "Invalid JSON format", <<>>, <<>>,
                                   "JSONDecodeError", <<>>)
                /\ pc' = "done"
                /\ UNCHANGED config
    /\ UNCHANGED <<json_config, name, protocol, handler, schema, observed>>
    /\ UNCHANGED <<limiter_vars, app_vars, bot_vars>>

\* lines 51-57: protocol = config.get("protocol", "").lower() and the membership
\* test; an AttributeError raised here is outside every try block
Lookup ==
    /\ pc = "get_protocol"
    /\ LET got == GetProtocol(config)
       IN  IF got.exc # ""
           THEN /\ result' = Raise(got.exc, "", <<>>, <<>>, "", <<>>)
                /\ pc' = "done"
                /\ UNCHANGED protocol
           ELSE /\ protocol' = got.protocol
                /\ IF Registered(got.protocol)
                   THEN pc' = "handle" /\ UNCHANGED result
                   ELSE /\ result' = Raise("ValueError", "Unsupported protocol",
                                           got.protocol, HandlerKeys, "", <<>>)
                        /\ pc' = "done"
    /\ UNCHANGED <<json_config, name, config, handler, schema, observed>>
    /\ UNCHANGED <<limiter_vars, app_vars, bot_vars>>

\* lines 59-66: handler = self.protocol_handlers[protocol]; uri = handler(config, name)
Handle ==
    /\ pc = "handle"
    /\ handler' = HandlerFor(protocol)
    /\ schema' = SchemaClass(HandlerFor(protocol))
    /\ result' = HandleOutcome(protocol, config, name)
    /\ pc' = "done"
    /\ UNCHANGED <<json_config, name, config, protocol, observed>>
    /\ UNCHANGED <<limiter_vars, app_vars, bot_vars>>

\* the call ends: the URI or the exception has gone to the caller and the
\* locals of the call are gone
Finish ==
    /\ pc = "done"
    /\ pc' = "idle"
    /\ json_config' = Malformed
    /\ name' = <<>>
    /\ config' = NoConfig
    /\ protocol' = <<>>
    /\ handler' = ""
    /\ schema' = ""
    /\ result' = NoResult
    /\ observed' = [i \in 1..Len(Probes) |->
                       IF Probes[i] = [json |-> json_config, name |-> name]
                       THEN result ELSE observed[i]]
    /\ UNCHANGED <<limiter_vars, app_vars, bot_vars>>

Next ==
    \/ \E c \in Calls : Call(c)
    \/ JsonLoads
    \/ Lookup
    \/ Handle
    \/ Finish

Spec == Init /\ [][Next]_vars

NextRate ==
    \/ \E u \in RateUsers : Len(recorded[u]) < Quota(u) /\ add_request(u)
    \/ \E u \in RateUsers : is_rate_limited(u, DefaultMaxRequests, DefaultTimeWindow)
    \/ Tick(RateReadings)

SpecRate == Init /\ [][NextRate]_vars

NextCleanup ==
    \/ \E u \in UserIds : Len(recorded[u]) < MaxCleanupRecorded /\ add_request(u)
    \/ \E u \in UserIds : is_rate_limited(u, DefaultMaxRequests, DefaultTimeWindow)
    \/ \E m \in CleanupLimits : cleanup_old_users(m)
    \/ Tick(CleanupReadings)

SpecCleanup == Init /\ [][NextCleanup]_vars

\* the process: while the bot polls, its handlers call the converter
\* (src/telegram_bot.py line 214)
NextApp ==
    \/ \E t \in {"set", "unset"} : ImportConfig(t)
    \/ InstallHandlers
    \/ Start
    \/ RunFails
    \/ \E sig \in {"SIGINT", "SIGTERM"}, where \in {"task", "loop"} : Signal(sig, where)
    \/ UnwindStart
    \/ UnwindMain
    \/ UnwindModule
    \/ \E i \in 1..Len(Probes) : app_pc = "polling" /\ Call(Probes[i])
    \/ app_pc = "polling" /\ JsonLoads
    \/ app_pc = "polling" /\ Lookup
    \/ app_pc = "polling" /\ Handle
    \/ app_pc = "polling" /\ Finish

SpecApp == Init /\ [][NextApp]_vars

\* the updates of the users' chats, in any order
NextBot ==
    \/ \E key \in ConversationKeys : convert_start(key)
    \/ \E key \in ConversationKeys, json_text \in BotJson : receive_json(key, json_text)
    \/ \E key \in ConversationKeys, text \in BotNames : receive_name(key, text)
    \/ \E key \in ConversationKeys : cancel(key)

SpecBot == Init /\ [][NextBot]_vars

(***************************************************************************)
(* Vocabulary of the properties: how a finished call is read.              *)
(***************************************************************************)
Done == pc = "done"
Returned == Done /\ result.kind = "return"
Failed == Done /\ result.kind = "raise"

\* the running call was given a JSON object whose protocol value is text
HasProtocolText ==
    /\ json_config.wellformed /\ json_config.t = "object"
    /\ "protocol" \in DOMAIN json_config.obj
    /\ json_config.obj["protocol"].t = "str"
ProtocolText == json_config.obj["protocol"].s

\* the input keys of the running call's object, as schema field names
GivenFields == {FieldOfKey(k) : k \in (DOMAIN json_config.obj) \ {"protocol"}}

\* the fields the raised validation error names
NamedFields == {result.errors[i].field : i \in 1..Len(result.errors)}

\* the running call was given exactly the required fields of the schema of
\* handler h, all of them valid, and a protocol name that selects h
MinimalValidFor(h) ==
    /\ HasProtocolText
    /\ Registered(Lower(ProtocolText)) /\ HandlerFor(Lower(ProtocolText)) = h
    /\ GivenFields = RequiredFields(SchemaFields(h))
    /\ ValidateModel(SchemaFields(h), json_config.obj).errors = <<>>

\* the scheme token of each protocol
SchemeToken(h) ==
    CASE h = "convert_vless" -> <<118, 108, 101, 115, 115, 58, 47, 47>>
      [] h = "convert_vmess" -> <<118, 109, 101, 115, 115, 58, 47, 47>>
      [] h = "convert_trojan" -> <<116, 114, 111, 106, 97, 110, 58, 47, 47>>
      [] h = "convert_shadowsocks" -> <<115, 115, 58, 47, 47>>
      [] h = "convert_hysteria1" -> <<104, 121, 115, 116, 101, 114, 105, 97, 58, 47, 47>>
      [] h = "convert_hysteria2" -> <<104, 121, 50, 58, 47, 47>>

(***************************************************************************)
(* C1.  A minimal valid object of any of the six protocols converts: the   *)
(* call returns a URI and the URI begins with the protocol's scheme token. *)
(* Stated as claimed; convert_vmess reads header_type, which VMESSConfig   *)
(* does not declare, so every vmess call fails.                            *)
(***************************************************************************)
C1_MinimalConverts ==
    \A h \in Handlers :
        (Done /\ MinimalValidFor(h)) =>
            (result.kind = "return" /\ StartsWith(result.uri, SchemeToken(h)))

(***************************************************************************)
(* C2.  Whatever the input, a finished call has returned a URI or raised   *)
(* ValueError; a malformed text fails with the parse error before any      *)
(* protocol is looked up; a failed call carries no URI.  Stated as         *)
(* claimed; a JSON value that is not an object, or a protocol value that   *)
(* is not a string, raises AttributeError outside every try block.         *)
(***************************************************************************)
C2_OneErrorChannel ==
    Done =>
        /\ result.kind = "return" \/ (result.kind = "raise" /\ result.exc = "ValueError")
        /\ ~json_config.wellformed =>
              (result.msg = "Invalid JSON format" /\ protocol = <<>> /\ handler = "")
        /\ result.kind = "raise" => result.uri = <<>>

(***************************************************************************)
(* C3.  An object without a protocol key, or with the empty string as its  *)
(* protocol, fails with an error of its own kind, not the error an unknown *)
(* protocol name gets.  Stated as claimed; the code gives both the         *)
(* "Unsupported protocol" error.                                           *)
(***************************************************************************)
C3_ProtocolMissing ==
    /\ json_config.wellformed /\ json_config.t = "object"
    /\ "protocol" \notin DOMAIN json_config.obj
          \/ json_config.obj["protocol"] = StrV(<<>>)
C3_MissingProtocolKind ==
    (Done /\ C3_ProtocolMissing) =>
        (result.kind = "raise" /\ result.exc = "ValueError"
         /\ result.msg # "Unsupported protocol")

(***************************************************************************)
(* C4.  A protocol name that, lower-cased, is none of the nine registered  *)
(* names fails with the "Unsupported protocol" error, which carries the    *)
(* (lower-cased) name and the nine supported names, and neither a handler  *)
(* nor a schema is used; a name that is registered selects exactly one     *)
(* handler, which runs with its own schema.                                *)
(***************************************************************************)
C4_Names ==
    { <<118, 108, 101, 115, 115>>,
      <<118, 109, 101, 115, 115>>,
      <<116, 114, 111, 106, 97, 110>>,
      <<115, 115>>,
      <<115, 104, 97, 100, 111, 119, 115, 111, 99, 107, 115>>,
      <<104, 121>>,
      <<104, 121, 115, 116, 101, 114, 105, 97>>,
      <<104, 121, 50>>,
      <<104, 121, 115, 116, 101, 114, 105, 97, 50>> }
C4_Unsupported ==
    (Done /\ HasProtocolText) =>
        IF Lower(ProtocolText) \notin C4_Names
        THEN /\ result.kind = "raise" /\ result.exc = "ValueError"
             /\ result.msg = "Unsupported protocol"
             /\ result.given = Lower(ProtocolText)
             /\ {result.supported[i] : i \in 1..Len(result.supported)} = C4_Names
             /\ Len(result.supported) = Cardinality(C4_Names)
             /\ handler = "" /\ schema = ""
        ELSE /\ result.msg # "Unsupported protocol"
             /\ Cardinality({i \in 1..Len(protocol_handlers) :
                               protocol_handlers[i].key = Lower(ProtocolText)}) = 1
             /\ handler \in Handlers /\ schema = SchemaClass(handler)
C4_Witness ==
    /\ Done /\ HasProtocolText /\ ProtocolText = <<70, 79, 79>>
    /\ result.msg = "Unsupported protocol" /\ handler = ""

(***************************************************************************)
(* C5.  The result of a call does not depend on which alias of the         *)
(* protocol is written, nor on its letter case: the same object and name   *)
(* with any other spelling of the protocol convert to the same result.     *)
(***************************************************************************)
C5_AliasGroups ==
    { {<<118, 108, 101, 115, 115>>}, {<<118, 109, 101, 115, 115>>}, {<<116, 114, 111, 106, 97, 110>>},
      {<<115, 115>>, <<115, 104, 97, 100, 111, 119, 115, 111, 99, 107, 115>>},
      {<<104, 121>>, <<104, 121, 115, 116, 101, 114, 105, 97>>},
      {<<104, 121, 50>>, <<104, 121, 115, 116, 101, 114, 105, 97, 50>>} }
C5_Spellings(p) ==
    UNION {{a, Upper(a), Capitalize(a)} : a \in UNION {g \in C5_AliasGroups : Lower(p) \in g}}
C5_Respelled(q) == JsonObject(With(Without(json_config.obj, {"protocol"}), "protocol", StrV(q)))
C5_AliasSameResult ==
    (Done /\ HasProtocolText) =>
        \A q \in C5_Spellings(ProtocolText) : Convert(C5_Respelled(q), name) = result
C5_Witness ==
    /\ Returned /\ HasProtocolText /\ ProtocolText = <<83, 83>>
    /\ Convert(C5_Respelled(<<115, 104, 97, 100, 111, 119, 115, 111, 99, 107, 115>>), name) = result

(***************************************************************************)
(* C6.  With every other field valid, a port of 0 or 65536 is rejected     *)
(* with a validation error for port, and a port of 1 or 65535 is accepted  *)
(* and a URI returned, for each of the six protocols.  Stated as claimed;  *)
(* it fails for vmess, where no port is ever accepted (see C1).            *)
(***************************************************************************)
\* the running call selects handler h and its object is valid but for the port
C6_ValidButPort(h) ==
    /\ HasProtocolText
    /\ Registered(Lower(ProtocolText)) /\ HandlerFor(Lower(ProtocolText)) = h
    /\ "port" \in DOMAIN json_config.obj /\ json_config.obj["port"].t = "int"
    /\ ValidateModel(SchemaFields(h), With(json_config.obj, "port", IntV(443))).errors = <<>>
C6_PortBounds ==
    \A h \in Handlers :
        (Done /\ C6_ValidButPort(h)) =>
            /\ json_config.obj["port"].n \in {0, 65536} =>
                  (result.kind = "raise" /\ result.cause = "ValidationError"
                   /\ NamedFields = {"port"})
            /\ json_config.obj["port"].n \in {1, 65535} => result.kind = "return"

(***************************************************************************)
(* C7.  The uuid validator of the vless and vmess schemas rejects, with an *)
(* error naming uuid, exactly the strings that are not in the canonical    *)
(* hyphenated 8-4-4-4-12 hexadecimal form.  Stated as claimed; the         *)
(* validator calls uuid.UUID, which also accepts 32 bare hex digits, the   *)
(* brace-wrapped and the urn:uuid: forms, and hyphens in any position.     *)
(***************************************************************************)
C7_UuidKey == IF "id" \in DOMAIN json_config.obj THEN "id" ELSE "uuid"
C7_UuidGiven ==
    /\ HasProtocolText
    /\ Lower(ProtocolText) \in {<<118, 108, 101, 115, 115>>, <<118, 109, 101, 115, 115>>}
    /\ C7_UuidKey \in DOMAIN json_config.obj
    /\ json_config.obj[C7_UuidKey].t = "str"
C7_UuidCanonicalOnly ==
    (Done /\ C7_UuidGiven) =>
        (("uuid" \in NamedFields) <=> ~is_valid_uuid(json_config.obj[C7_UuidKey].s))

(***************************************************************************)
(* C8.  When required fields of the selected protocol are absent, the call *)
(* fails with one validation error and returns no URI.                     *)
(*   as claimed: the error names exactly the absent required fields;       *)
(*   as amended: the error names every absent required field, and names a  *)
(*   field that is present only when that field's own value is invalid.    *)
(***************************************************************************)
C8_Selected == HasProtocolText /\ Registered(Lower(ProtocolText))
C8_Schema == SchemaFields(HandlerFor(Lower(ProtocolText)))
C8_Absent == RequiredFields(C8_Schema) \ GivenFields
C8_FieldInvalid(f) ==
    \E i \in 1..Len(C8_Schema) :
        /\ C8_Schema[i].name = f
        /\ ~ValidateField(C8_Schema[i], json_config.obj).ok
C8_NamesExactlyAbsent ==
    (Done /\ C8_Selected /\ C8_Absent # {}) =>
        /\ result.kind = "raise" /\ result.exc = "ValueError"
        /\ result.cause = "ValidationError" /\ result.uri = <<>>
        /\ NamedFields = C8_Absent
C8_NamesAbsentAndInvalid ==
    (Done /\ C8_Selected /\ C8_Absent # {}) =>
        /\ result.kind = "raise" /\ result.exc = "ValueError"
        /\ result.cause = "ValidationError" /\ result.uri = <<>>
        /\ C8_Absent \subseteq NamedFields
        /\ \A f \in NamedFields \ C8_Absent : f \in GivenFields /\ C8_FieldInvalid(f)
        /\ \A i \in 1..Len(result.errors) :
              (result.errors[i].type = "value_error.missing")
                  <=> (result.errors[i].field \in C8_Absent)
C8_Witness ==
    /\ Failed /\ C8_Selected
    /\ C8_Absent = {"password", "address"}
    /\ NamedFields = {"password", "address", "port"}

(***************************************************************************)
(* C9.  A valid vmess object converts to "vmess://" followed by the base64 *)
(* of a compact JSON object whose v is the string "2", whose ps is the     *)
(* display name and whose port is the input port as a number; the URI has  *)
(* no fragment.  Stated as claimed; no vmess call returns a URI (see C1).  *)
(***************************************************************************)
C9_Attributes ==
    ValidateModel(VMESSConfig, json_config.obj).values @@ ("header_type" :> None)
C9_Payload == vmess_obj(C9_Attributes, name)
C9_VmessPayload ==
    (Done /\ MinimalValidFor("convert_vmess")) =>
        /\ result.kind = "return"
        /\ ~Contains(result.uri, 35)
        /\ result.uri = <<118, 109, 101, 115, 115, 58, 47, 47>> \o B64Encode(Utf8(JsonDumps(C9_Payload)))
        /\ C9_Payload[1] = << <<118>>, StrV(<<50>>) >>
        /\ C9_Payload[2] = << <<112, 115>>, StrV(name) >>
        /\ C9_Payload[4] = << <<112, 111, 114, 116>>, IntV(json_config.obj["port"].n) >>

(***************************************************************************)
(* C10.  In a returned URI that has a fragment (every protocol but vmess)  *)
(* the text after the last "#" is the percent-encoding of the display      *)
(* name, and decoding it gives back the name.                              *)
(*   as claimed: every character that is not unreserved is encoded, "/"    *)
(*   included;                                                             *)
(*   as amended: every character that is neither unreserved nor "/" is     *)
(*   encoded, and "/" is left as it is.                                    *)
(***************************************************************************)
C10_HasFragment == Returned /\ handler # "convert_vmess"
C10_Fragment == SubSeq(result.uri, LastIndexOf(result.uri, 35) + 1, Len(result.uri))
\* s is made of unreserved characters, %XX triples and the characters of raw
C10_EncodedBut(s, raw) ==
    \A i \in 1..Len(s) :
        \/ AlwaysSafe(s[i]) \/ s[i] \in raw
        \/ s[i] = 37 /\ i + 2 <= Len(s) /\ IsHexDigit(s[i+1]) /\ IsHexDigit(s[i+2])
C10_FullyEncoded ==
    C10_HasFragment =>
        /\ Contains(result.uri, 35)
        /\ C10_EncodedBut(C10_Fragment, {})
        /\ UnquoteBytes(C10_Fragment) = Utf8(name)
C10_EncodedButSlash ==
    C10_HasFragment =>
        /\ Contains(result.uri, 35)
        /\ C10_EncodedBut(C10_Fragment, {47})
        /\ UnquoteBytes(C10_Fragment) = Utf8(name)
        /\ \A i \in 1..Len(name) : name[i] = 47 \/ AlwaysSafe(name[i]) \/ Contains(C10_Fragment, 37)
C10_Witness ==
    /\ C10_HasFragment /\ handler = "convert_hysteria1"
    /\ name = <<35, 233>>
    /\ C10_Fragment = <<37, 50, 51, 37, 67, 51, 37, 65, 57>>

(***************************************************************************)
(* C11.  A shadowsocks object whose method is not one of the ten allowed   *)
(* cipher names (compared exactly, letter case included) fails with a      *)
(* validation error for method whose message lists the ten names; a        *)
(* method that is one of the ten raises no error for method.               *)
(***************************************************************************)
C11_TenNames ==
    { <<97, 101, 115, 45, 49, 50, 56, 45, 103, 99, 109>>,
      <<97, 101, 115, 45, 50, 53, 54, 45, 103, 99, 109>>,
      <<99, 104, 97, 99, 104, 97, 50, 48, 45, 112, 111, 108, 121, 49, 51, 48, 53>>,
      <<97, 101, 115, 45, 49, 50, 56, 45, 99, 116, 114>>,
      <<97, 101, 115, 45, 49, 57, 50, 45, 99, 116, 114>>,
      <<97, 101, 115, 45, 50, 53, 54, 45, 99, 116, 114>>,
      <<97, 101, 115, 45, 49, 50, 56, 45, 99, 102, 98>>,
      <<97, 101, 115, 45, 49, 57, 50, 45, 99, 102, 98>>,
      <<97, 101, 115, 45, 50, 53, 54, 45, 99, 102, 98>>,
      <<99, 104, 97, 99, 104, 97, 50, 48, 45, 105, 101, 116, 102, 45, 112, 111, 108, 121, 49, 51, 48, 53>> }
C11_MethodGiven ==
    /\ HasProtocolText
    /\ Registered(Lower(ProtocolText))
    /\ HandlerFor(Lower(ProtocolText)) = "convert_shadowsocks"
    /\ "method" \in DOMAIN json_config.obj /\ json_config.obj["method"].t = "str"
\* the text w occurs in the text s
C11_Mentions(s, w) == \E i \in 1..(Len(s) - Len(w) + 1) : SubSeq(s, i, i + Len(w) - 1) = w
C11_MethodError(e) ==
    /\ e.field = "method" /\ e.type = "value_error"
    /\ StartsWith(e.msg, <<73, 110, 118, 97, 108, 105, 100, 32, 109, 101, 116, 104, 111, 100, 46, 32, 83, 117, 112, 112, 111, 114, 116, 101, 100, 58, 32>>)
    /\ \A w \in C11_TenNames : C11_Mentions(e.msg, w)
C11_MethodAllowList ==
    (Done /\ C11_MethodGiven) =>
        IF json_config.obj["method"].s \in C11_TenNames
        THEN "method" \notin NamedFields
        ELSE /\ result.kind = "raise" /\ result.exc = "ValueError"
             /\ result.cause = "ValidationError"
             /\ \E i \in 1..Len(result.errors) : C11_MethodError(result.errors[i])
C11_Witness ==
    /\ Failed /\ C11_MethodGiven
    /\ json_config.obj["method"].s = <<65, 69, 83, 45, 50, 53, 54, 45, 71, 67, 77>>
    /\ NamedFields = {"method"}

(***************************************************************************)
(* C12.  For trojan, shadowsocks and hysteria2 a password of three         *)
(* characters or fewer fails with a validation error for password, and a   *)
(* password of four or more raises no error for password; the authString   *)
(* of hysteria1 is accepted whatever its length.                           *)
(***************************************************************************)
C12_Selected(h) ==
    /\ HasProtocolText
    /\ Registered(Lower(ProtocolText)) /\ HandlerFor(Lower(ProtocolText)) = h
C12_TextGiven(k) == k \in DOMAIN json_config.obj /\ json_config.obj[k].t = "str"
C12_PasswordError(e) ==
    /\ e.field = "password" /\ e.type = "value_error"
    /\ e.msg = <<80, 97, 115, 115, 119, 111, 114, 100, 32, 109, 117, 115, 116, 32, 98, 101, 32, 97, 116, 32, 108, 101, 97, 115, 116, 32, 52, 32, 99, 104, 97, 114, 97, 99, 116, 101, 114, 115>>
C12_PasswordLength ==
    /\ \A h \in {"convert_trojan", "convert_shadowsocks", "convert_hysteria2"} :
          (Done /\ C12_Selected(h) /\ C12_TextGiven("password")) =>
              IF Len(json_config.obj["password"].s) <= 3
              THEN /\ result.kind = "raise" /\ result.cause = "ValidationError"
                   /\ \E i \in 1..Len(result.errors) : C12_PasswordError(result.errors[i])
              ELSE "password" \notin NamedFields
    /\ (Done /\ C12_Selected("convert_hysteria1") /\ C12_TextGiven("authString")) =>
          "auth_string" \notin NamedFields
C12_Witness ==
    /\ Failed /\ C12_Selected("convert_hysteria2")
    /\ C12_TextGiven("password") /\ json_config.obj["password"].s = <<112, 112, 112>>
    /\ NamedFields = {"password"}

(***************************************************************************)
(* C13.  The outcome of a call is a function of its two arguments only:    *)
(* whatever calls the instance served before, successful or failing, a     *)
(* finished call has the outcome convert computes from (json_config, name) *)
(* alone, and a call repeated with the same arguments gets the outcome the *)
(* caller got for them before.                                             *)
(***************************************************************************)
C13_Repeats(i) ==
    /\ observed[i] # NoResult
    /\ Probes[i] = [json |-> json_config, name |-> name]
C14_Pairs ==
    { <<"id", "uuid">>, <<"headerType", "header_type">>,
      <<"authString", "auth_string">>, <<"obfsPassword", "obfs_password">> }
\* the object with the value of key from moved to key to
C14_Rekey(obj, from, to) == With(Without(obj, {from}), to, obj[from])
\* the running call selects a schema that has the pair as (alias, name) of a
\* field, and gives the field under exactly one of the two keys
C14_Given(pair) ==
    /\ HasProtocolText /\ Registered(Lower(ProtocolText))
    /\ \E i \in 1..Len(SchemaFields(HandlerFor(Lower(ProtocolText)))) :
          /\ SchemaFields(HandlerFor(Lower(ProtocolText)))[i].alias = pair[1]
          /\ SchemaFields(HandlerFor(Lower(ProtocolText)))[i].name = pair[2]
    /\ (pair[1] \in DOMAIN json_config.obj) # (pair[2] \in DOMAIN json_config.obj)
C14_KeyGiven(pair) == IF pair[1] \in DOMAIN json_config.obj THEN pair[1] ELSE pair[2]
C14_OtherKey(pair) == IF pair[1] \in DOMAIN json_config.obj THEN pair[2] ELSE pair[1]
C14_UnderAlias(pair) == C14_Rekey(json_config.obj, C14_KeyGiven(pair), pair[1])
C14_OtherSpelling(pair) == C14_Rekey(json_config.obj, C14_KeyGiven(pair), C14_OtherKey(pair))
C14_AliasOrName ==
    \A pair \in C14_Pairs :
        (/\ Done /\ C14_Given(pair)
         /\ ValidateModel(SchemaFields(HandlerFor(Lower(ProtocolText))),
                          C14_UnderAlias(pair)).errors = <<>>) =>
            /\ result.kind = "return"
            /\ Convert(JsonObject(C14_OtherSpelling(pair)), name) = result

(***************************************************************************)
(* C15.  With the default limits is_rate_limited(u) answers true exactly   *)
(* when add_request(u) has recorded at least 30 requests of u in the last  *)
(* 60 seconds: older requests and the requests of other users do not       *)
(* count, so a user with fewer than 30 requests in the window is never     *)
(* reported as limited.                                                    *)
(***************************************************************************)
\* the requests of u that add_request recorded in the last 60 seconds
C15_InWindow(u) == {i \in 1..Len(recorded[u]) : recorded[u][i] > clock - 60}
C15_LimitedExactly ==
    answer.op = "is_rate_limited" =>
        (answer.value <=> Cardinality(C15_InWindow(answer.user)) >= 30)
C15_Witness ==
    /\ answer = Answer("is_rate_limited", 101, TRUE)
    /\ Len(recorded[101]) = 31 /\ Cardinality(C15_InWindow(101)) = 30
    /\ \E i \in C15_InWindow(101) : recorded[101][i] < clock
    /\ recorded[102] # <<>>

(***************************************************************************)
(* C16.  The query of a vless URI starts with encryption and then type     *)
(* (the network, tcp when there is none), and after them holds security,   *)
(* sni, flow, alpn, path, host, headerType: each one exactly when its      *)
(* field (tls for security) is present and not empty in the input.         *)
(***************************************************************************)
\* the parts of s between the occurrences of the character sep
RECURSIVE C16_Split(_, _)
C16_Split(s, sep) ==
    IF ~Contains(s, sep) THEN <<s>>
    ELSE <<SubSeq(s, 1, FirstIndexOf(s, sep) - 1)>>
         \o C16_Split(SubSeq(s, FirstIndexOf(s, sep) + 1, Len(s)), sep)
\* the text of the returned URI between the first "?" and the last "#"
C16_Query == SubSeq(result.uri, FirstIndexOf(result.uri, 63) + 1, LastIndexOf(result.uri, 35) - 1)
C16_Pairs == C16_Split(C16_Query, 38)
C16_Key(i) == C16_Split(C16_Pairs[i], 61)[1]
C16_Value(i) == C16_Split(C16_Pairs[i], 61)[2]
C16_Keys == {C16_Key(i) : i \in 1..Len(C16_Pairs)}
\* one of the input keys ks is present with a text that is not empty
C16_Present(ks) ==
    \E k \in ks : /\ k \in DOMAIN json_config.obj
                   /\ json_config.obj[k].t = "str" /\ json_config.obj[k].s # <<>>
C16_Conditional ==
    { <<<<115, 101, 99, 117, 114, 105, 116, 121>>, {"tls"}>>,
      <<<<115, 110, 105>>, {"sni"}>>,
      <<<<102, 108, 111, 119>>, {"flow"}>>,
      <<<<97, 108, 112, 110>>, {"alpn"}>>,
      <<<<112, 97, 116, 104>>, {"path"}>>,
      <<<<104, 111, 115, 116>>, {"host"}>>,
      <<<<104, 101, 97, 100, 101, 114, 84, 121, 112, 101>>, {"headerType", "header_type"}>> }
C16_VlessQuery ==
    (Returned /\ handler = "convert_vless") =>
        /\ Contains(result.uri, 63)
        /\ Len(C16_Pairs) >= 2
        /\ C16_Key(1) = <<101, 110, 99, 114, 121, 112, 116, 105, 111, 110>>
        /\ C16_Key(2) = <<116, 121, 112, 101>>
        /\ C16_Value(2) = (IF C16_Present({"network"})
                           THEN QuotePlus(json_config.obj["network"].s) ELSE <<116, 99, 112>>)
        /\ \A c \in C16_Conditional : (c[1] \in C16_Keys) <=> C16_Present(c[2])
        /\ Cardinality(C16_Keys) = Len(C16_Pairs)
        /\ C16_Keys \subseteq { <<101, 110, 99, 114, 121, 112, 116, 105, 111, 110>>, <<116, 121, 112, 101>> } \cup {c[1] : c \in C16_Conditional}
C16_Witness ==
    /\ Returned /\ handler = "convert_vless"
    /\ C16_Present({"sni"}) /\ C16_Present({"headerType"}) /\ C16_Present({"path"})
    /\ ~C16_Present({"tls"}) /\ ~C16_Present({"host"})
    /\ Len(C16_Pairs) = 5

(***************************************************************************)
(* C17.  A hysteria1 or hysteria2 URI has a "?" exactly when it has a      *)
(* query parameter, and the parameters are tls=1, sni, alpn and protocol   *)
(* (hysteria1) or obfs and obfs-password (hysteria2), each one exactly     *)
(* when its field is not empty.                                            *)
(*   as claimed: a field counts when the input gives it, so an input with  *)
(*   no optional field has no query;                                       *)
(*   as amended: a field the input does not give counts with its schema    *)
(*   default (tls "tls", alpn "h2" or "h3"), so an input with no optional  *)
(*   field has the query tls=1&alpn=h2 (or h3), and the query is omitted   *)
(*   only when tls and alpn are given empty or null.                       *)
(***************************************************************************)
C17_Hysteria == Returned /\ handler \in {"convert_hysteria1", "convert_hysteria2"}
\* (parameter, input keys of its field, default of the field when it is text)
C17_Params ==
    IF handler = "convert_hysteria1"
    THEN { <<<<116, 108, 115>>, {"tls"}, <<116, 108, 115>>>>,
           <<<<115, 110, 105>>, {"sni"}, <<>> >>,
           <<<<97, 108, 112, 110>>, {"alpn"}, <<104, 50>>>>,
           <<<<112, 114, 111, 116, 111, 99, 111, 108>>, {"protocolString", "protocol_string"}, <<>> >> }
    ELSE { <<<<116, 108, 115>>, {"tls"}, <<116, 108, 115>>>>,
           <<<<115, 110, 105>>, {"sni"}, <<>> >>,
           <<<<97, 108, 112, 110>>, {"alpn"}, <<104, 51>>>>,
           <<<<111, 98, 102, 115>>, {"obfs"}, <<>> >>,
           <<<<111, 98, 102, 115, 45, 112, 97, 115, 115, 119, 111, 114, 100>>, {"obfsPassword", "obfs_password"}, <<>> >> }
C17_Given(ks) == \E k \in ks : k \in DOMAIN json_config.obj
C17_NoOptionGiven == \A q \in C17_Params : ~C17_Given(q[2])
C17_Pairs == IF Contains(result.uri, 63) THEN C16_Pairs ELSE <<>>
C17_Keys == {C16_Split(C17_Pairs[i], 61)[1] : i \in 1..Len(C17_Pairs)}
C17_TlsIsOne ==
    \A i \in 1..Len(C17_Pairs) :
        C16_Split(C17_Pairs[i], 61)[1] = <<116, 108, 115>> => C16_Split(C17_Pairs[i], 61)[2] = <<49>>
C17_QueryAsClaimed ==
    C17_Hysteria =>
        /\ C17_Keys = {q[1] : q \in {x \in C17_Params : C16_Present(x[2])}}
        /\ Cardinality(C17_Keys) = Len(C17_Pairs)
        /\ Contains(result.uri, 63) <=> C17_Keys # {}
        /\ C17_NoOptionGiven => ~Contains(result.uri, 63)
        /\ C17_TlsIsOne
C17_QueryWithDefaults ==
    C17_Hysteria =>
        /\ C17_Keys = {q[1] : q \in {x \in C17_Params :
                                        \/ C16_Present(x[2])
                                        \/ ~C17_Given(x[2]) /\ x[3] # <<>>}}
        /\ Cardinality(C17_Keys) = Len(C17_Pairs)
        /\ Contains(result.uri, 63) <=> C17_Keys # {}
        /\ C17_NoOptionGiven => C17_Keys = { <<116, 108, 115>>, <<97, 108, 112, 110>> }
        /\ C17_TlsIsOne
C17_Witness ==
    /\ C17_Hysteria /\ handler = "convert_hysteria2" /\ C17_NoOptionGiven
    /\ name = DefaultName
    /\ C16_Query = <<116, 108, 115, 61, 49, 38, 97, 108, 112, 110, 61, 104, 51>>
C17_WitnessNoQuery ==
    /\ C17_Hysteria /\ handler = "convert_hysteria1"
    /\ C17_Given({"tls"}) /\ C17_Given({"alpn"})
    /\ ~Contains(result.uri, 63)

(***************************************************************************)
(* C18.  When every required field is present and two or more fields have  *)
(* a value their validator rejects, the call fails with one validation     *)
(* error.                                                                  *)
(*   as claimed: validation stops at the first failing field, and the      *)
(*   error names that field only;                                          *)
(*   as amended: every field is validated, and the error names each        *)
(*   failing field, in the order the schema declares them.                 *)
(***************************************************************************)
\* the input gives field f (under key k) a value of the field's type that the
\* validator of f rejects
C18_Rejected(f, k) ==
    /\ k \in DOMAIN json_config.obj
    /\ CASE f = "port" -> /\ json_config.obj[k].t = "int"
                          /\ ~(1 <= json_config.obj[k].n /\ json_config.obj[k].n <= 65535)
         [] f = "uuid" -> json_config.obj[k].t = "str" /\ ~UuidCtorOk(json_config.obj[k].s)
         [] f = "password" -> json_config.obj[k].t = "str" /\ Len(json_config.obj[k].s) < 4
         [] f = "method" -> /\ json_config.obj[k].t = "str"
                            /\ json_config.obj[k].s \notin C11_TenNames
         [] OTHER -> FALSE
\* the fields of the selected schema that have a validator and a rejected value
C18_Failing ==
    {i \in 1..Len(C8_Schema) :
        /\ C8_Schema[i].validator # ""
        /\ \/ C18_Rejected(C8_Schema[i].name, C8_Schema[i].alias)
           \/ /\ C8_Schema[i].alias \notin DOMAIN json_config.obj
              /\ C18_Rejected(C8_Schema[i].name, C8_Schema[i].name)}
\* the values of the other given fields have the type of their field
C18_WellTyped ==
    \A k \in (DOMAIN json_config.obj) \ {"port"} : json_config.obj[k].t = "str"
C18_SeveralInvalid ==
    /\ C8_Selected /\ C8_Absent = {} /\ C18_WellTyped
    /\ Cardinality(C18_Failing) >= 2
C18_First == CHOOSE i \in C18_Failing : \A j \in C18_Failing : i <= j
C18_Position(f) == CHOOSE i \in 1..Len(C8_Schema) : C8_Schema[i].name = f
C18_FirstErrorOnly ==
    (Done /\ C18_SeveralInvalid) =>
        /\ result.kind = "raise" /\ result.exc = "ValueError"
        /\ result.cause = "ValidationError"
        /\ Len(result.errors) = 1
        /\ result.errors[1].field = C8_Schema[C18_First].name
C18_EveryError ==
    (Done /\ C18_SeveralInvalid) =>
        /\ result.kind = "raise" /\ result.exc = "ValueError"
        /\ result.cause = "ValidationError"
        /\ Len(result.errors) = Cardinality(C18_Failing)
        /\ NamedFields = {C8_Schema[i].name : i \in C18_Failing}
        /\ \A a, b \in 1..Len(result.errors) :
              a < b => C18_Position(result.errors[a].field) < C18_Position(result.errors[b].field)
        /\ \A a \in 1..Len(result.errors) :
              result.errors[a].type = "value_error" /\ result.errors[a].msg # <<>>
C18_Witness ==
    /\ Failed /\ C18_SeveralInvalid /\ handler = "convert_vless"
    /\ Len(result.errors) = 2
    /\ result.errors[1].field = "uuid" /\ result.errors[2].field = "port"

(***************************************************************************)
(* C19.  When the process has received SIGINT or SIGTERM while the bot was *)
(* running and has exited, BotApplication.stop has run (and through it     *)
(* V2RayTelegramBot.stop), and running is false.  Stated as claimed;       *)
(* handle_signal calls sys.exit(0), and no except clause that SystemExit   *)
(* (or the CancelledError of the cancelled main task) passes calls stop.   *)
(***************************************************************************)
C19_GracefulShutdown ==
    (app_pc = "exited" /\ signalled.sig \in {"SIGINT", "SIGTERM"} /\ signalled.running) =>
        (bot = "stopped" /\ ~running)

(***************************************************************************)
(* C20.  A call of cleanup_old_users(max_users) evicts no user that has a  *)
(* request of the last hour, and leaves at most max_users users tracked.   *)
(* Stated as claimed; the code evicts only users without a request of the  *)
(* last hour, however many users remain.                                   *)
(***************************************************************************)
C20_NoneRecentEvicted ==
    \A u \in DOMAIN user_requests :
        AnyRecent(user_requests[u], clock) => u \in DOMAIN user_requests'
C20_AtMost(max_users) == Cardinality(DOMAIN user_requests') <= max_users
C20_CleanupBounded ==
    [][\A m \in CleanupLimits :
          cleanup_old_users(m) => (C20_NoneRecentEvicted /\ C20_AtMost(m))]_vars

(***************************************************************************)
(* C23.  In a returned URI of the form scheme://userinfo@address:port...   *)
(* (every protocol but vmess) the text between the scheme token and the    *)
(* first "@" holds no "#", "?" or "/", and what follows that "@" begins    *)
(* with the address and port of the configuration.  Stated as claimed;     *)
(* convert_trojan puts the password in the URI as it is, quote leaves "/"  *)
(* as it is, and the base64 alphabet of the shadowsocks userinfo has "/".  *)
(***************************************************************************)
C23_Handlers ==
    {"convert_vless", "convert_trojan", "convert_shadowsocks",
     "convert_hysteria1", "convert_hysteria2"}
C23_AfterScheme(uri, h) == SubSeq(uri, Len(SchemeToken(h)) + 1, Len(uri))
C23_Clean(userinfo) == \A i \in 1..Len(userinfo) : userinfo[i] \notin {64, 35, 63, 47}
C23_Splits(rest, at, server) ==
    /\ at > 0
    /\ C23_Clean(SubSeq(rest, 1, at - 1))
    /\ StartsWith(SubSeq(rest, at + 1, Len(rest)), server)
C23_Accepted == ValidateModel(SchemaFields(handler), json_config.obj).values
C23_UserinfoSeparated ==
    (Returned /\ handler \in C23_Handlers) =>
        C23_Splits(C23_AfterScheme(result.uri, handler),
                   FirstIndexOf(C23_AfterScheme(result.uri, handler), 64),
                   Server(C23_Accepted))

(***************************************************************************)
(* C21.  With one user in two chats, the URI receive_name delivers in a    *)
(* conversation is the conversion of the JSON text receive_json accepted   *)
(* in that conversation, and receive_name never answers "Configuration     *)
(* not found" (it runs only in a conversation that is in WAITING_FOR_NAME, *)
(* which a cancelled one is not).  Stated as claimed; user_configs is      *)
(* keyed by the user alone, so the two conversations share one entry.      *)
(***************************************************************************)
C21_Delivered(reply) ==
    reply.kind = "success" =>
        /\ Convert(reply.accepted, reply.name).kind = "return"
        /\ reply.uri = Convert(reply.accepted, reply.name).uri
C21_ConversationsIsolated ==
    \A key \in ConversationKeys :
        /\ C21_Delivered(replies[key])
        /\ replies[key].kind # "not_found"

(***************************************************************************)
(* C22.  user_configs holds a staged JSON for a user only while a          *)
(* conversation of that user is in WAITING_FOR_NAME; once receive_name or  *)
(* cancel has returned END nothing is staged.  Stated as claimed;          *)
(* receive_name deletes the entry only after a successful conversion.      *)
(***************************************************************************)
C22_Waiting(u) == \E c \in ChatIds : conversations[<<c, u>>] = WAITING_FOR_NAME
C22_StagedOnlyWhileWaiting ==
    \A u \in BotUsers : u \in DOMAIN user_configs => C22_Waiting(u)

====
